---- MODULE Spec2Model ----
(***************************************************************************)
(* A model of the stock-runner backtesting engine: the Backtest order      *)
(* accounting (buy / sell), the two tick loops (runOnStock and             *)
(* runOnAllStocks), the CandleBuffer prefetch window and the broker fee    *)
(* policies.                                                               *)
(*                                                                         *)
(* Units.  JavaScript numbers are modelled in fixed point:                 *)
(*   - a share quantity is an integer number of shares;                    *)
(*   - a price is an integer number of 1e-4 dollars (a hundredth of a      *)
(*     cent), so price 10000 is one dollar;                                *)
(*   - money (cash, fees, cost, proceeds, profit) is an integer number of  *)
(*     1e-8 dollars, so that every per-share rate of the fee schedules     *)
(*     (0.0000265, 0.000166, ...) is a whole number of units;              *)
(*   - a timestamp is an integer number of milliseconds.                   *)
(***************************************************************************)
EXTENDS Integers, Sequences, FiniteSets, TLC

VARIABLES
    \* ---- the Backtest instance
    broker,            \* the Broker instance of the run: [kind, slippage]
    startCashBalance,  \* Backtest.startCashBalance
    cashBalance,       \* Backtest.cashBalance
    stockBalances,     \* Backtest.stockBalances : ticker -> shares (partial map)
    holdSince,         \* Backtest.holdSince     : ticker -> timestamp (partial map)
    stockPrices,       \* Backtest.stockPrices   : ticker -> price (partial map)
    stockFeatures,     \* Backtest.stockFeatures : ticker -> vector (partial map)
    swaps,             \* Backtest.swaps  : sequence of swap records
    trades,            \* Backtest.trades : sequence of trade records
    equityCurve,       \* Backtest.equityCurve : sequence of <<ts, totalValue, cash>>
    delistCounter,     \* Backtest.delistCounter : ticker -> count (partial map)
    totalFees,         \* Backtest.totalFees
    startDate,         \* Backtest.startDate (ms)
    endDate,           \* Backtest.endDate (ms)
    strategy,          \* Backtest.strategy: [main, intervals : name -> [count, preload]]
    buffers,           \* Backtest.buffers[stockName] : interval name -> CandleBuffer
    \* ---- the datastore
    db,                \* interval name -> ticker -> ascending sequence of candles
    \* ---- the position of the run
    running,           \* the method in progress: "none", "runOnStock", "runOnAllStocks"
    pc,                \* where the running method stands
    i,                 \* runOnStock: index into the main buffer; runOnAllStocks: index into dates
    pendingEnsure,     \* runOnStock: buffers whose ensure() of this round has not completed
    stocks,            \* runOnAllStocks: the Stocks loaded for the chunk, ticker -> rows
    arr,               \* runOnAllStocks: the per-symbol set of the tick, ticker -> candle
    pendingFeatures,   \* the _features of the context objects of the bar, ticker -> vector
    \* ---- the outcome of the last call the callback or the host made
    lastOp,            \* the operation called
    lastError,         \* the error it threw, "none" when it returned
    lastResult,        \* what getCandles returned
    lastRequest,       \* the arguments of getCandles, when that was the last call
    \* ---- a Stock built by hand or by a loader
    builtStock,        \* the Stock: its seven columns and its timestamp index
    pushed,            \* the candles handed to pushCandle so far, in order
    lastIndex          \* what getIndex returned

engineVars == <<cashBalance, stockBalances, holdSince, stockPrices, stockFeatures,
                swaps, trades, totalFees>>

configVars == <<broker, startCashBalance, startDate, endDate, strategy, db>>

runVars == <<buffers, running, pc, i, pendingEnsure, stocks, arr, pendingFeatures>>

stockVars == <<builtStock, pushed, lastIndex>>

vars == <<broker, startCashBalance, cashBalance, stockBalances, holdSince, stockPrices,
          stockFeatures, swaps, trades, equityCurve, delistCounter, totalFees,
          startDate, endDate, strategy, buffers, db, running, pc, i, pendingEnsure, stocks,
          arr,
          pendingFeatures, lastOp, lastError, lastResult, lastRequest,
          builtStock, pushed, lastIndex>>

-----------------------------------------------------------------------------
(* Partial maps (JavaScript objects used as dictionaries).                  *)

EmptyMap == [x \in {} |-> 0]

Has(m, k) == k \in DOMAIN m

Put(m, k, v) == [x \in (DOMAIN m) \cup {k} |-> IF x = k THEN v ELSE m[x]]

Del(m, k) == [x \in (DOMAIN m) \ {k} |-> m[x]]

\* m[k] || 0
GetOr0(m, k) == IF Has(m, k) THEN m[k] ELSE 0

\* an optional feature vector: null / undefined, or an array
NoFeatures == [isArray |-> FALSE, vec |-> <<>>]

Features(v) == [isArray |-> TRUE, vec |-> v]

-----------------------------------------------------------------------------
(* Bounds and input sets.                                                   *)

MaxSwaps == 2

MaxRawSwaps == 2

Tickers == {"A", "B"}

\* well-formed orders
QtySet == {1, 2}

PriceSet == {1, 2}

\* any arguments a caller can pass, the non-positive ones included
RawQtySet == {-1, 0, 1}

RawPriceSet == {-1, 0, 1}

FeatureSet == {NoFeatures, Features(<<1>>), Features(<<2>>)}

RawFeatureSet == {NoFeatures, Features(<<1>>)}

OrderTsSet == {1}

StartCashSet == {31000}

\* the runs: bars of the single-ticker series, dates of the multi-ticker run,
\* orders a run may place
NumBars == 12

NumTicks == 14

MaxRunSwaps == 1

RunQtySet == {1}

RunBroker == [kind |-> "ibkr_tiered", slippage |-> 0]

CountSet == {1, 2}

IntervalNames == {"1m", "5m", "1h"}

RunFeatureSet == {Features(<<1>>)}

\* the result of a call that returned nothing (or of no call)
NoResult == [kind |-> "none", candles |-> <<>>]

\* getCandles resolved to null
NullResult == [kind |-> "null", candles |-> <<>>]

\* getCandles resolved to an array of candles
CandlesResult(cs) == [kind |-> "candles", candles |-> cs]

\* no getCandles call
NoRequest == [stockName |-> "", intervalName |-> "", count |-> 0, ts |-> 0]

Request(t, n, count, ts) ==
    [stockName |-> t, intervalName |-> n, count |-> count, ts |-> ts]

BrokerSet == { [kind |-> "base", slippage |-> 0],
               [kind |-> "ibkr_fixed", slippage |-> 0],
               [kind |-> "ibkr_tiered", slippage |-> 0],
               [kind |-> "alpaca", slippage |-> 0] }

-----------------------------------------------------------------------------
(* Broker fee policies.  Fees are in 1e-8 dollars; quantity * price is the  *)
(* notional in 1e-4 dollars.                                                *)

\* a faulty commission: capped at 1% of the notional first, raised to minFee
\* last
IBKRCommissionMinLast(feeType, quantity, price) ==
    LET perShare == IF feeType = "fixed" THEN 500000 ELSE 350000
        minFee == IF feeType = "fixed" THEN 100000000 ELSE 35000000
        c0 == quantity * perShare
        c1 == IF (c0 - 1) \div 100 >= quantity * price
              THEN quantity * price * 100
              ELSE c0
    IN  IF c1 < minFee THEN minFee ELSE c1

\* IBKR base commission: quantity * perShare, raised to minFee, then capped
\* at 1% of the notional.  The cap notional * 0.01 is quantity * price * 100
\* units; it is compared without being formed when it is the larger one.
IBKRCommission(feeType, quantity, price) ==
    LET perShare == IF feeType = "fixed" THEN 500000 ELSE 350000
        minFee == IF feeType = "fixed" THEN 100000000 ELSE 35000000
        c0 == quantity * perShare
        c1 == IF c0 < minFee THEN minFee ELSE c0
    IN  IF (c1 - 1) \div 100 >= quantity * price
        THEN quantity * price * 100
        ELSE c1

IBKRFees(feeType, quantity, price, side) ==
    LET commission == IBKRCommission(feeType, quantity, price)
        finraTAF == IF side = "sell" THEN quantity * 16600 ELSE 0
        finraCAT == IF side = "sell" THEN quantity * 2200 ELSE 0
        clearing == IF feeType = "tiered" THEN quantity * 20000 ELSE 0
        passThruNYSE == IF feeType = "tiered" THEN (commission * 7) \div 40000 ELSE 0
        passThruFINRA == IF feeType = "tiered" THEN (commission * 7) \div 12500 ELSE 0
    IN  commission + finraTAF + finraCAT + clearing + passThruNYSE + passThruFINRA

\* Alpaca: no commission, FINRA TAF on sells, CAT on every execution, slippage
\* (in basis points of the notional).
AlpacaFees(slippage, quantity, price, side) ==
    LET finraTAF == IF side = "sell" THEN quantity * 16600 ELSE 0
        catFee == quantity * 2650
        slipCost == quantity * price * slippage
    IN  finraTAF + catFee + slipCost

\* Alpaca.calculateFees as the second class of part_004 has it: the FINRA TAF
\* is $0.000195 per share on at most 50,205 shares, at most $9.79, rounded up
\* to the cent
AlpacaFeesCapped(slippage, quantity, price, side) ==
    LET shares == IF quantity < 50205 THEN quantity ELSE 50205
        raw == shares * 19500
        capped == IF raw < 979000000 THEN raw ELSE 979000000
        finraTAF == IF side = "sell" THEN ((capped + 999999) \div 1000000) * 1000000
                    ELSE 0
        catFee == quantity * 2650
        slipCost == quantity * price * slippage
    IN  finraTAF + catFee + slipCost

\* the base Broker charges nothing
BaseFees(quantity, price, side) == 0

calculateFees(b, quantity, price, side) ==
    CASE b.kind = "base" -> BaseFees(quantity, price, side)
      [] b.kind = "ibkr_fixed" -> IBKRFees("fixed", quantity, price, side)
      [] b.kind = "ibkr_tiered" -> IBKRFees("tiered", quantity, price, side)
      [] b.kind = "alpaca" -> AlpacaFees(b.slippage, quantity, price, side)
      [] b.kind = "alpaca_capped" -> AlpacaFeesCapped(b.slippage, quantity, price, side)

-----------------------------------------------------------------------------
(* Backtest: order execution and accounting.                                *)

\* quantity * price, in money units
Notional(quantity, price) == quantity * price * 10000

\* a faulty guard: the fee is left out of the comparison
buyRejectedIgnoringFee(cost, fee) == cost > cashBalance

\* the guard of buy: cost + fee > cashBalance
buyRejected(cost, fee) == cost + fee > cashBalance

\* a faulty store: a buy without features clears the stored vector
featuresAfterBuyCleared(stockName, features) ==
    IF features.isArray THEN Put(stockFeatures, stockName, features.vec)
    ELSE Del(stockFeatures, stockName)

\* lines 406-408: an array is stored, anything else leaves the entry alone
featuresAfterBuy(stockName, features) ==
    IF features.isArray THEN Put(stockFeatures, stockName, features.vec)
    ELSE stockFeatures

\* Backtest.buy
buy(stockName, quantity, price, timestamp, features) ==
    LET cost == Notional(quantity, price)
        fee == calculateFees(broker, quantity, price, "buy")
    IN  /\ lastOp' = "buy"
        /\ lastResult' = NoResult
        /\ lastRequest' = NoRequest
        /\ IF buyRejected(cost, fee)
           THEN /\ lastError' = "InsufficientCash"
                /\ UNCHANGED engineVars
           ELSE /\ lastError' = "none"
                /\ cashBalance' = cashBalance - (cost + fee)
                /\ stockBalances' = Put(stockBalances, stockName,
                                        GetOr0(stockBalances, stockName) + quantity)
                /\ totalFees' = totalFees + fee
                /\ swaps' = Append(swaps, [type |-> "buy", quantity |-> quantity,
                                           price |-> price, timestamp |-> timestamp,
                                           fee |-> fee, stockName |-> stockName,
                                           supplied |-> features])  \* ghost: the argument
                /\ stockPrices' = Put(stockPrices, stockName, price)
                /\ holdSince' = Put(holdSince, stockName, timestamp)
                /\ stockFeatures' = featuresAfterBuy(stockName, features)
                /\ UNCHANGED trades

\* a faulty guard: only the missing position is refused
sellRejectedOnlyWhenEmpty(stockName, quantity) ==
    GetOr0(stockBalances, stockName) = 0

\* the two guards of sell: no (or a zero) balance, or fewer shares than asked
sellRejected(stockName, quantity) ==
    \/ GetOr0(stockBalances, stockName) = 0
    \/ quantity > stockBalances[stockName]

\* a faulty walk: it stops at the newest buy of the ticker
MatchedBuysNewestOnly(log, stockName) ==
    LET K == {k \in 1..Len(log) : log[k].stockName = stockName}
    IN  IF K = {} THEN <<>>
        ELSE LET k == CHOOSE x \in K : \A y \in K : y <= x
             IN  IF log[k].type = "sell" THEN <<>> ELSE <<log[k]>>

\* a faulty walk: every buy of the ticker in the log, whatever was sold since
RECURSIVE MatchedBuysWholeLog(_, _)
MatchedBuysWholeLog(log, stockName) ==
    IF log = <<>> THEN <<>>
    ELSE LET last == log[Len(log)]
             rest == SubSeq(log, 1, Len(log) - 1)
         IN  IF last.stockName = stockName /\ last.type = "buy"
             THEN <<last>> \o MatchedBuysWholeLog(rest, stockName)
             ELSE MatchedBuysWholeLog(rest, stockName)

\* swaps.toReversed().filter(same ticker), up to the first sell: the ticker's
\* buys after its last sell, newest first
RECURSIVE MatchedBuys(_, _)
MatchedBuys(log, stockName) ==
    IF log = <<>> THEN <<>>
    ELSE LET last == log[Len(log)]
             rest == SubSeq(log, 1, Len(log) - 1)
         IN  IF last.stockName # stockName THEN MatchedBuys(rest, stockName)
             ELSE IF last.type = "sell" THEN <<>>
             ELSE <<last>> \o MatchedBuys(rest, stockName)

RECURSIVE SumCost(_)
SumCost(buys) ==
    IF buys = <<>> THEN 0
    ELSE Notional(buys[1].quantity, buys[1].price) + SumCost(Tail(buys))

RECURSIVE SumFees(_)
SumFees(log) ==
    IF log = <<>> THEN 0 ELSE log[1].fee + SumFees(Tail(log))

\* a faulty sell: the fee is not added to totalFees
sellFeeForgotten(fee) == 0

\* the fee a sell adds to totalFees
sellFeeCharged(fee) == fee

\* a faulty credit: the proceeds without the fee taken off
cashAfterSellGross(proceeds, fee) == cashBalance + proceeds

\* line 435: this.cashBalance += (proceeds - fee)
cashAfterSell(proceeds, fee) == cashBalance + (proceeds - fee)

\* a faulty sell: whatever is sold, no share is left
sharesAfterSellingAll(held, quantity) == 0

\* line 436: this.stockBalances[stockName] -= quantity
sharesAfterSell(held, quantity) == held - quantity

\* Backtest.sell
sell(stockName, quantity, price, timestamp) ==
    /\ lastOp' = "sell"
    /\ lastResult' = NoResult
    /\ lastRequest' = NoRequest
    /\ IF sellRejected(stockName, quantity)
       THEN /\ lastError' = "InsufficientShares"
            /\ UNCHANGED engineVars
       ELSE LET proceeds == Notional(quantity, price)
                fee == calculateFees(broker, quantity, price, "sell")
                buys == MatchedBuys(swaps, stockName)
                cost == SumCost(buys)
                buyFees == SumFees(buys)
                profit == proceeds - cost - buyFees - fee
                left == sharesAfterSell(stockBalances[stockName], quantity)
                features == IF Has(stockFeatures, stockName)
                            THEN Features(stockFeatures[stockName])
                            ELSE NoFeatures
            IN  /\ lastError' = "none"
                /\ cashBalance' = cashAfterSell(proceeds, fee)
                /\ totalFees' = totalFees + sellFeeCharged(fee)
                /\ stockPrices' = Put(stockPrices, stockName, price)
                /\ trades' = Append(trades, [stockName |-> stockName,
                                             quantity |-> quantity, price |-> price,
                                             timestamp |-> timestamp, fee |-> fee,
                                             profit |-> profit,
                                             matched |-> Len(buys),  \* ghost: |buys|
                                             features |-> features])
                /\ stockBalances' = IF left = 0 THEN Del(stockBalances, stockName)
                                    ELSE Put(stockBalances, stockName, left)
                /\ holdSince' = IF left = 0 THEN Del(holdSince, stockName) ELSE holdSince
                /\ stockFeatures' = IF left = 0 THEN Del(stockFeatures, stockName)
                                    ELSE stockFeatures
                /\ swaps' = Append(swaps, [type |-> "sell", quantity |-> quantity,
                                           price |-> price, timestamp |-> timestamp,
                                           fee |-> fee, stockName |-> stockName,
                                           supplied |-> NoFeatures])  \* ghost

-----------------------------------------------------------------------------
(* Candles, time and the datastore.                                         *)

\* consts.js intervalMsMap
IntervalMs(name) ==
    CASE name = "1d" -> 86400000
      [] name = "1h" -> 3600000
      [] name = "5m" -> 300000
      [] name = "1m" -> 60000

prefetchFactor == 10

\* a candle, reduced to the two fields the engine reads.  The loaders build a
\* candle from a row with the row's timestamp as sixth argument, the order of
\* the constructor (open, high, low, close, volume, timestamp, transactions);
\* a stored row and the candle read back from a Stock carry the same timestamp.
Candle(ts, close) == [timestamp |-> ts, close |-> close]

\* a faulty query: the rows with timestamp >= from, newest first (ORDER BY
\* timestamp DESC), at most n of them
RECURSIVE loadStockAfterNewestFirst(_, _, _)
loadStockAfterNewestFirst(series, from, n) ==
    IF series = <<>> \/ n <= 0 THEN <<>>
    ELSE LET last == series[Len(series)]
             rest == SubSeq(series, 1, Len(series) - 1)
         IN  IF last.timestamp >= from
             THEN <<last>> \o loadStockAfterNewestFirst(rest, from, n - 1)
             ELSE <<>>

\* the rows of a series with timestamp >= from, ascending, at most n of them
\* (SELECT ... WHERE timestamp >= from ORDER BY timestamp ASC LIMIT n)
RECURSIVE loadStockAfterTimestamp(_, _, _)
loadStockAfterTimestamp(series, from, n) ==
    IF series = <<>> \/ n <= 0 THEN <<>>
    ELSE IF series[1].timestamp >= from
         THEN <<series[1]>> \o loadStockAfterTimestamp(Tail(series), from, n - 1)
         ELSE loadStockAfterTimestamp(Tail(series), from, n)

\* the rows of a series with timestamp <= upto, newest first, at most n of them
\* (SELECT ... WHERE timestamp <= upto ... ORDER BY timestamp DESC LIMIT n); the
\* trading-calendar lower bound of the query is not modelled: the rows of a series
\* are taken to lie within it
RECURSIVE loadStockBeforeTimestamp(_, _, _)
loadStockBeforeTimestamp(series, upto, n) ==
    IF series = <<>> \/ n <= 0 THEN <<>>
    ELSE LET last == series[Len(series)]
             rest == SubSeq(series, 1, Len(series) - 1)
         IN  IF last.timestamp <= upto
             THEN <<last>> \o loadStockBeforeTimestamp(rest, upto, n - 1)
             ELSE loadStockBeforeTimestamp(rest, upto, n)

Series(name, ticker) ==
    IF Has(db, name) /\ Has(db[name], ticker) THEN db[name][ticker] ELSE <<>>

Reverse(seq) == [k \in 1..Len(seq) |-> seq[Len(seq) + 1 - k]]

-----------------------------------------------------------------------------
(* CandleBuffer.                                                            *)

\* new CandleBuffer(stockName, interval, startDate, endDate, lookback)
NewCandleBuffer(name, start, lookback) ==
    [interval |-> name,
     lookback |-> lookback,
     prefetch |-> lookback * prefetchFactor,
     buffer |-> <<>>,
     nextTs |-> start - lookback * IntervalMs(name),
     done |-> FALSE,
     fetches |-> 0]     \* ghost: datastore fetches issued

\* a faulty cursor: the next fetch starts at the last loaded bar
nextTsAtLast(lastTs) == lastTs

\* line 60: the next fetch starts just past the last loaded bar
nextTsAfter(lastTs) == lastTs + 1

\* CandleBuffer._fetchChunk
fetchChunk(b, series, end) ==
    IF b.done THEN b
    ELSE IF b.nextTs >= end THEN [b EXCEPT !.done = TRUE]
    ELSE LET chunk == loadStockAfterTimestamp(series, b.nextTs, b.prefetch)
         IN  IF Len(chunk) = 0
             THEN [b EXCEPT !.done = TRUE, !.fetches = @ + 1]
             ELSE [b EXCEPT !.buffer = @ \o chunk,
                            !.nextTs = nextTsAfter(chunk[Len(chunk)].timestamp),
                            !.done = Len(chunk) < b.prefetch,
                            !.fetches = @ + 1]

\* a faulty ensure: only the first load, no top-up
ensureFirstLoadOnly(b, series, end, currentTs) ==
    IF Len(b.buffer) = 0 THEN fetchChunk(b, series, end) ELSE b

\* CandleBuffer.ensure
ensure(b, series, end, currentTs) ==
    IF Len(b.buffer) = 0 THEN fetchChunk(b, series, end)
    ELSE LET lastTs == b.buffer[Len(b.buffer)].timestamp
             threshold == lastTs - b.lookback * IntervalMs(b.interval)
         IN  IF currentTs >= threshold THEN fetchChunk(b, series, end) ELSE b

\* buffer.findIndex(c => c.timestamp > ts), 0-based, -1 when there is none
findIndexAfter(buffer, ts) ==
    LET hits == {k \in 1..Len(buffer) : buffer[k].timestamp > ts}
    IN  IF hits = {} THEN -1
        ELSE (CHOOSE k \in hits : \A m \in hits : k <= m) - 1

\* CandleBuffer.getLast: [error, candles]
getLast(b, count, ts) ==
    LET found == findIndexAfter(b.buffer, ts)
        idx == IF found = -1 THEN Len(b.buffer) - 1 ELSE found - 1
        start == idx - count + 1
    IN  IF found = 0 THEN [error |-> "NoData", candles |-> <<>>]
        ELSE IF start < 0 THEN [error |-> "InsufficientData", candles |-> <<>>]
        ELSE [error |-> "none",
              candles |-> Reverse(SubSeq(b.buffer, start + 1, idx + 1))]

-----------------------------------------------------------------------------
(* Backtest.runOnStock.                                                     *)

\* the ticker runOnStock is called with
OneStock == "A"

MainName == strategy.main

Lookback == strategy.intervals[MainName].count

PreloadNames == {n \in DOMAIN strategy.intervals : strategy.intervals[n].preload}

MainBuf == buffers[MainName].buffer

\* mainBuf[i] of the loop (i is the 0-based index of the source)
MainCandle == MainBuf[i + 1]

\* Backtest.totalValue
totalValue ==
    LET held == DOMAIN stockBalances
        RECURSIVE Sum(_)
        Sum(S) == IF S = {} THEN 0
                  ELSE LET t == CHOOSE x \in S : TRUE
                       IN  Notional(stockBalances[t], stockPrices[t]) + Sum(S \ {t})
    IN  cashBalance + Sum(held)

\* lines 176-179: the preloaded branch hands its result to resolve(), a name
\* that is bound only inside the Promise executor of the other branch
deliverPreloaded(candles, count) ==
    [error |-> "ReferenceError", result |-> NoResult]

\* runOnStock: the inner getCandles(ts, intervalName, count)
getCandlesOnStock(ts, intervalName, count) ==
    IF ~Has(strategy.intervals, intervalName)
    THEN [error |-> "IntervalNotFound", result |-> NoResult]
    ELSE IF ~strategy.intervals[intervalName].preload
    THEN LET stock == loadStockBeforeTimestamp(Series(intervalName, OneStock), ts,
                                               count * 2)
         IN  IF Len(stock) < count
             THEN [error |-> "none", result |-> NullResult]
             ELSE [error |-> "none", result |-> CandlesResult(SubSeq(stock, 1, count))]
    ELSE LET got == getLast(buffers[intervalName], count, ts)
         IN  IF got.error # "none"
             THEN [error |-> got.error, result |-> NoResult]
             ELSE deliverPreloaded(got.candles, count)

\* a faulty guard: no request is taken to be for the future
requestsFutureNever(ts, barTs) == FALSE

\* the look-ahead guard of the context's getCandles
requestsFuture(ts, barTs) == ts > barTs

\* tickObj.getCandles(intervalName, count, ts)
tickGetCandles(intervalName, count, ts) ==
    IF requestsFuture(ts, MainCandle.timestamp)
    THEN [error |-> "Lookahead", result |-> NoResult]
    ELSE getCandlesOnStock(ts, intervalName, count)

\* runOnStock, lines 140-150: one CandleBuffer per preloaded interval
RunOnStockBegin ==
    /\ running = "runOnStock"
    /\ pc = "start"
    /\ buffers' = [n \in PreloadNames |->
                      NewCandleBuffer(n, startDate, strategy.intervals[n].count)]
    /\ pendingEnsure' = PreloadNames
    /\ pc' = "preload"
    /\ UNCHANGED <<configVars, stockVars, engineVars, equityCurve, delistCounter, running, i,
                   stocks, arr, pendingFeatures, lastOp, lastError, lastResult, lastRequest>>

\* one buffer's ensure() of the current Promise.all round completes
EnsureStep(n) ==
    /\ running = "runOnStock"
    /\ pc \in {"preload", "ensure"}
    /\ n \in pendingEnsure
    /\ LET ts == IF pc = "preload" THEN startDate ELSE MainCandle.timestamp
       IN  buffers' = [buffers EXCEPT
                          ![n] = ensure(@, Series(n, OneStock), endDate, ts)]
    /\ pendingEnsure' = pendingEnsure \ {n}
    /\ UNCHANGED <<configVars, stockVars, engineVars, equityCurve, delistCounter, running, pc,
                   i, stocks, arr, pendingFeatures, lastOp, lastError, lastResult, lastRequest>>

\* the first index of the loop: lookback - 1
firstIndex(lookback) == lookback - 1

\* the preload round is joined; the loop starts at lookback - 1
PreloadJoin ==
    /\ running = "runOnStock"
    /\ pc = "preload"
    /\ pendingEnsure = {}
    /\ i' = firstIndex(Lookback)
    /\ pc' = "loop"
    /\ UNCHANGED <<configVars, stockVars, engineVars, equityCurve, delistCounter, buffers,
                   running, pendingEnsure, stocks, arr, pendingFeatures, lastOp,
                   lastError, lastResult, lastRequest>>

\* the loop condition and the endDate break
LoopHead ==
    /\ running = "runOnStock"
    /\ pc = "loop"
    /\ IF i < Len(MainBuf) /\ MainCandle.timestamp < endDate
       THEN /\ pc' = "ensure"
            /\ pendingEnsure' = DOMAIN buffers
       ELSE /\ pc' = "metrics"
            /\ UNCHANGED pendingEnsure
    /\ UNCHANGED <<configVars, stockVars, engineVars, equityCurve, delistCounter, buffers,
                   running, i, stocks, arr, pendingFeatures, lastOp, lastError,
                   lastResult, lastRequest>>

\* a faulty join: the round is left as soon as it was started, as with no
\* await on Promise.all
EnsureJoinEarly ==
    /\ running = "runOnStock"
    /\ pc = "ensure"
    /\ stockPrices' = Put(stockPrices, OneStock, MainCandle.close)
    /\ pendingFeatures' = EmptyMap
    /\ lastOp' = "none"
    /\ lastError' = "none"
    /\ lastResult' = NoResult
    /\ lastRequest' = NoRequest
    /\ pc' = "callback"
    /\ UNCHANGED <<configVars, stockVars, cashBalance, stockBalances, holdSince, stockFeatures, swaps,
                   trades, totalFees, equityCurve, delistCounter, buffers, running,
                   i, pendingEnsure, stocks, arr>>

\* the ensure round is joined: mark to market, build tickObj, call onTick
EnsureJoin ==
    /\ running = "runOnStock"
    /\ pc = "ensure"
    /\ pendingEnsure = {}
    /\ stockPrices' = Put(stockPrices, OneStock, MainCandle.close)
    /\ pendingFeatures' = EmptyMap
    /\ lastOp' = "none"
    /\ lastError' = "none"
    /\ lastResult' = NoResult
    /\ lastRequest' = NoRequest
    /\ pc' = "callback"
    /\ UNCHANGED <<configVars, stockVars, cashBalance, stockBalances, holdSince, stockFeatures, swaps,
                   trades, totalFees, equityCurve, delistCounter, buffers, running,
                   i, pendingEnsure, stocks, arr>>

-----------------------------------------------------------------------------
(* Stock (the column store of one ticker) and the range query.              *)

\* the binary search of Stock.getIndex over rows[left..right] (0-based); an
\* argument that is a Date never compares === to a stored number
RECURSIVE bsearch(_, _, _, _, _)
bsearch(rows, timestamp, isDate, left, right) ==
    IF left > right THEN [found |-> FALSE, left |-> left, right |-> right]
    ELSE LET mid == (left + right) \div 2
         IN  IF ~isDate /\ rows[mid + 1].timestamp = timestamp
             THEN [found |-> TRUE, left |-> mid, right |-> mid]
             ELSE IF rows[mid + 1].timestamp < timestamp
             THEN bsearch(rows, timestamp, isDate, mid + 1, right)
             ELSE bsearch(rows, timestamp, isDate, left, mid - 1)

Abs(x) == IF x < 0 THEN -x ELSE x

\* Stock.getIndex (0-based): the exact row, else the nearer neighbour
getIndex(rows, timestamp, isDate) ==
    LET r == bsearch(rows, timestamp, isDate, 0, Len(rows) - 1)
    IN  IF r.found THEN r.left
        ELSE IF r.left > 0 /\ r.right < Len(rows) - 1
        THEN LET leftDiff == Abs(rows[r.left].timestamp - timestamp)
                 rightDiff == Abs(rows[r.right + 2].timestamp - timestamp)
             IN  IF leftDiff < rightDiff THEN r.left - 1 ELSE r.right + 1
        ELSE r.left

\* Stock.getCandle(k) is not null
hasCandle(rows, k) == k >= 0 /\ k < Len(rows)

\* Stock.getCandle(k), for a k that has a candle
getCandle(rows, k) == rows[k + 1]

\* loadAllStocksInRange: every ticker with a row in [from, to], rows ascending
loadAllStocksInRange(name, from, to) ==
    LET within(c) == c.timestamp >= from /\ c.timestamp <= to
        table == IF Has(db, name) THEN db[name] ELSE EmptyMap
        found == {t \in DOMAIN table : \E k \in 1..Len(table[t]) : within(table[t][k])}
    IN  [t \in found |-> SelectSeq(table[t], within)]

-----------------------------------------------------------------------------
(* Column and Stock as they are stored: typed arrays that grow by doubling. *)

initialCapacity == 500

\* the JavaScript number of exactly p price units (p * 1e-4 dollars)
Exactly(p) == [units |-> p, off |-> FALSE]

\* Math.fround, what a write to a Float32Array does to a number: p * 1e-4 is
\* (p / 625) / 16, a single-precision float exactly when p is a multiple of 625
\* (p / 625 then has fewer than 24 bits); any other price is replaced by the
\* float nearest to it, which lies off it by less than a unit
fround(x) == IF x.units % 625 = 0 THEN x ELSE [units |-> x.units, off |-> TRUE]

\* what a write to a Uint32Array does to a count: the volumes and transaction
\* counts of the model are integers of 0 .. 2^31 - 1, which it holds as they are
toUint32(v) == v

\* the element a typed array of the type holds after value is written to it
store(type, value) ==
    CASE type = "Float32" -> fround(value)
      [] type = "Uint32" -> toUint32(value)
      [] type = "Float64" -> value

\* the element of a fresh typed array
zero(type) == IF type = "Float32" THEN Exactly(0) ELSE 0

\* new Column(Type)
NewColumn(type) ==
    [type |-> type,
     buffer |-> [k \in 1..initialCapacity |-> zero(type)],
     length |-> 0]

\* Column.push
push(col, value) ==
    LET cap == Len(col.buffer)
        grown == IF col.length >= cap
                 THEN col.buffer \o [k \in 1..cap |-> zero(col.type)]
                 ELSE col.buffer
    IN  [type |-> col.type,
         buffer |-> [grown EXCEPT ![col.length + 1] = store(col.type, value)],
         length |-> col.length + 1]

\* new Candle(open, high, low, close, volume, transactions, timestamp) of
\* candle.js, with all seven fields
StockCandle(open, high, low, close, volume, transactions, timestamp) ==
    [open |-> open, high |-> high, low |-> low, close |-> close,
     volume |-> volume, transactions |-> transactions, timestamp |-> timestamp]

\* new Stock(name, granularity)
NewStock ==
    [volumes |-> NewColumn("Uint32"),
     opens |-> NewColumn("Float32"),
     closes |-> NewColumn("Float32"),
     highs |-> NewColumn("Float32"),
     lows |-> NewColumn("Float32"),
     timestamps |-> NewColumn("Float64"),
     transactions |-> NewColumn("Uint32"),
     timestampIndex |-> EmptyMap]

\* no Stock has been constructed
NullStock == [timestampIndex |-> EmptyMap]

\* Stock.size
size(s) == s.volumes.length

\* Stock.pushCandle
pushCandle(s, candle) ==
    [volumes |-> push(s.volumes, candle.volume),
     opens |-> push(s.opens, candle.open),
     closes |-> push(s.closes, candle.close),
     highs |-> push(s.highs, candle.high),
     lows |-> push(s.lows, candle.low),
     timestamps |-> push(s.timestamps, candle.timestamp),
     transactions |-> push(s.transactions, candle.transactions),
     timestampIndex |-> Put(s.timestampIndex, candle.timestamp, size(s))]

\* Stock.getCandle(k) of a Stock as stored, for 0 <= k < size
candleAt(s, k) ==
    StockCandle(s.opens.buffer[k + 1], s.highs.buffer[k + 1], s.lows.buffer[k + 1],
                s.closes.buffer[k + 1], s.volumes.buffer[k + 1],
                s.transactions.buffer[k + 1], s.timestamps.buffer[k + 1])

\* [...stock]: the iterator of Stock
iterate(s) == [k \in 1..size(s) |-> candleAt(s, k - 1)]

\* the candle a loader builds from a row of the datastore
rowCandle(row) ==
    StockCandle(Exactly(row.close), Exactly(row.close), Exactly(row.close),
                Exactly(row.close), 0, 0, row.timestamp)

\* the Stock a loader returns: a new Stock with the rows of its query pushed
\* in the order of the query
RECURSIVE pushAll(_, _)
pushAll(s, candles) ==
    IF candles = <<>> THEN s
    ELSE pushAll(pushCandle(s, candles[1]), Tail(candles))

-----------------------------------------------------------------------------
(* Backtest.runOnAllStocks.                                                 *)

\* intervalFn({start, end}): one date per step of the main timeframe, from
\* the step startDate lies in
Dates ==
    LET ms == IntervalMs(MainName)
        n == IF endDate < startDate THEN 0
             ELSE endDate \div ms - startDate \div ms + 1
    IN  [k \in 1..n |-> (startDate \div ms + (k - 1)) * ms]

CurrentDate == Dates[i + 1]

allStocksPreloadAmounts(name) ==
    CASE name = "1d" -> 250
      [] name = "1h" -> 500
      [] name = "5m" -> 1000
      [] name = "1m" -> 2000

\* the UTC day of the week, 0 = Sunday (1970-01-01 was a Thursday)
Weekday(ts) == ((ts \div 86400000) + 4) % 7

\* dbFallback: the rows at or before ts from the datastore, newest first
dbFallback(stockName, intervalName, ts, count) ==
    LET loaded == loadStockBeforeTimestamp(Series(intervalName, stockName), ts,
                                            count * 2)
    IN  IF Len(loaded) < count THEN NullResult
        ELSE CandlesResult(SubSeq(loaded, 1, count))

\* a faulty getCandles: the row getIndex gives is taken as the end of the
\* window, later than ts or not
getCandlesOnAllNoStepBack(ts, stockName, intervalName, count) ==
    IF ~Has(strategy.intervals, intervalName)
    THEN [error |-> "IntervalNotFound", result |-> NoResult]
    ELSE IF \/ ~strategy.intervals[intervalName].preload
            \/ intervalName # MainName
    THEN [error |-> "none", result |-> dbFallback(stockName, intervalName, ts, count)]
    ELSE LET rows == stocks[stockName]
             index == getIndex(rows, ts, TRUE)
             start == index - count + 1
         IN  IF index >= Len(rows) \/ index < 0 \/ start < 0
             THEN [error |-> "none",
                   result |-> dbFallback(stockName, intervalName, ts, count)]
             ELSE [error |-> "none",
                   result |-> CandlesResult(
                       SubSeq(Reverse(SubSeq(rows, start + 1, index + 1)), 1, count))]

\* runOnAllStocks: the inner getCandles(ts, stock, intervalName, count).  The
\* strategies of the model preload no timeframe other than the main one, so
\* preloadedStocks[intervalName] is undefined for every other name.
getCandlesOnAll(ts, stockName, intervalName, count) ==
    IF ~Has(strategy.intervals, intervalName)
    THEN [error |-> "IntervalNotFound", result |-> NoResult]
    ELSE IF \/ ~strategy.intervals[intervalName].preload
            \/ intervalName # MainName
    THEN [error |-> "none", result |-> dbFallback(stockName, intervalName, ts, count)]
    ELSE LET rows == stocks[stockName]
             found == getIndex(rows, ts, TRUE)
             index == IF found < Len(rows) /\ rows[found + 1].timestamp > ts
                      THEN found - 1 ELSE found
             start == index - count + 1
         IN  IF found >= Len(rows) \/ index < 0 \/ start < 0
             THEN [error |-> "none",
                   result |-> dbFallback(stockName, intervalName, ts, count)]
             ELSE [error |-> "none",
                   result |-> CandlesResult(
                       SubSeq(Reverse(SubSeq(rows, start + 1, index + 1)), 1, count))]

\* the look-ahead guard of an item's getCandles
itemRequestsFuture(ts, currentDate) == ts > currentDate

\* item.getCandles(intervalName, count, ts)
itemGetCandles(stockName, intervalName, count, ts) ==
    IF itemRequestsFuture(ts, CurrentDate)
    THEN [error |-> "Lookahead", result |-> NoResult]
    ELSE getCandlesOnAll(ts, stockName, intervalName, count)

RunOnAllStocksBegin ==
    /\ running = "runOnAllStocks"
    /\ pc = "start"
    /\ i' = 0
    /\ pc' = "tick"
    /\ UNCHANGED <<configVars, stockVars, engineVars, equityCurve, delistCounter, buffers, running,
                   pendingEnsure, stocks, arr, pendingFeatures, lastOp, lastError,
                   lastResult, lastRequest>>

\* a faulty weekend test: only Sunday is skipped
isWeekendSundayOnly(day) == day = 0

\* day === 'Sat' || day === 'Sun'
isWeekend(day) == day \in {0, 6}

\* a faulty drop: the balance is set to zero and the entry is kept
delistToZero(balances, dropped) ==
    [t \in DOMAIN balances |-> IF t \in dropped THEN 0 ELSE balances[t]]

\* delete this.stockBalances[stockName], for every ticker dropped at the date
delist(balances, dropped) == [t \in (DOMAIN balances) \ dropped |-> balances[t]]

\* the body of the loop over the dates up to the call of onTick: the load of
\* the chunk at its first date, the weekend skip, the per-symbol set, the
\* marking to market and the delisting pass
Tick ==
    /\ running = "runOnAllStocks"
    /\ pc = "tick"
    /\ IF i >= Len(Dates)
       THEN /\ pc' = "metrics"
            /\ UNCHANGED <<stocks, i, stockPrices, delistCounter, stockBalances, arr,
                           pendingFeatures, lastOp, lastError, lastResult, lastRequest>>
       ELSE LET amount == allStocksPreloadAmounts(MainName)
                first == i - (i % amount)
                last == IF first + amount < Len(Dates) THEN first + amount
                        ELSE Len(Dates)
                min == strategy.intervals[MainName].count
                loaded == IF i = first
                          THEN loadAllStocksInRange(MainName,
                                   Dates[first + 1] - min * 2 * 86400000,
                                   Dates[last] + 4 * 86400000)
                          ELSE stocks
                present == {t \in DOMAIN loaded :
                               hasCandle(loaded[t], getIndex(loaded[t], CurrentDate, TRUE))}
                items == [t \in present |->
                             getCandle(loaded[t], getIndex(loaded[t], CurrentDate, TRUE))]
                missing == (DOMAIN stockBalances) \ present
                counted == [t \in (DOMAIN delistCounter) \cup missing |->
                               IF t \in missing THEN GetOr0(delistCounter, t) + 1
                               ELSE delistCounter[t]]
                dropped == {t \in missing : counted[t] > 10}
            IN  /\ stocks' = loaded
                /\ IF isWeekend(Weekday(CurrentDate)) \/ CurrentDate < Dates[first + 1]
                   THEN /\ i' = i + 1
                        /\ UNCHANGED <<pc, stockPrices, delistCounter, stockBalances, arr,
                                       pendingFeatures, lastOp, lastError, lastResult, lastRequest>>
                   ELSE /\ stockPrices' = [t \in (DOMAIN stockPrices) \cup present |->
                                              IF t \in present THEN items[t].close
                                              ELSE stockPrices[t]]
                        /\ IF present = {}
                           THEN /\ i' = i + 1
                                /\ UNCHANGED <<pc, delistCounter, stockBalances, arr,
                                               pendingFeatures, lastOp, lastError,
                                               lastResult, lastRequest>>
                           ELSE /\ delistCounter' = counted
                                /\ stockBalances' = delist(stockBalances, dropped)
                                /\ arr' = items
                                /\ pendingFeatures' = EmptyMap
                                /\ lastOp' = "none"
                                /\ lastError' = "none"
                                /\ lastResult' = NoResult
                                /\ lastRequest' = NoRequest
                                /\ pc' = "callback"
                                /\ UNCHANGED i
    /\ UNCHANGED <<configVars, stockVars, cashBalance, holdSince, stockFeatures, swaps, trades,
                   totalFees, equityCurve, buffers, running, pendingEnsure>>

-----------------------------------------------------------------------------
(* The strategy callback: the calls it can make on the context objects of   *)
(* the bar, and the ways it ends.                                           *)

\* the timestamp of the bar being dispatched
BarTs == IF running = "runOnStock" THEN MainCandle.timestamp ELSE CurrentDate

\* the tickers that have a context object at this bar
Items == IF running = "runOnStock" THEN {OneStock} ELSE DOMAIN arr

\* the candle of a ticker's context object
ItemCandle(t) == IF running = "runOnStock" THEN MainCandle ELSE arr[t]

\* the _features of a ticker's context object
ItemFeatures(t) == IF Has(pendingFeatures, t) THEN pendingFeatures[t] ELSE NoFeatures

\* context.getCandles(intervalName, count, ts)
CbGetCandles(t, intervalName, count, ts) ==
    /\ pc = "callback"
    /\ t \in Items
    /\ lastOp' = "getCandles"
    /\ LET out == IF running = "runOnStock"
                  THEN tickGetCandles(intervalName, count, ts)
                  ELSE itemGetCandles(t, intervalName, count, ts)
       IN  /\ lastError' = out.error
           /\ lastResult' = out.result
    /\ lastRequest' = Request(t, intervalName, count, ts)
    /\ UNCHANGED <<configVars, stockVars, engineVars, equityCurve, delistCounter, runVars>>

\* context.setFeatures(features)
CbSetFeatures(t, f) ==
    /\ pc = "callback"
    /\ t \in Items
    /\ pendingFeatures' = Put(pendingFeatures, t, f)
    /\ lastOp' = "setFeatures"
    /\ lastError' = "none"
    /\ lastResult' = NoResult
    /\ lastRequest' = NoRequest
    /\ UNCHANGED <<configVars, stockVars, engineVars, equityCurve, delistCounter, buffers, running,
                   pc, i, pendingEnsure, stocks, arr>>

\* context.buy(quantity, price)
CbBuy(t, quantity, price, bound) ==
    /\ pc = "callback"
    /\ t \in Items
    /\ buy(t, quantity, price, BarTs, ItemFeatures(t))
    /\ Len(swaps') <= bound
    /\ UNCHANGED <<configVars, stockVars, equityCurve, delistCounter, runVars>>

\* context.sell(quantity, price)
CbSell(t, quantity, price, bound) ==
    /\ pc = "callback"
    /\ t \in Items
    /\ sell(t, quantity, price, BarTs)
    /\ Len(swaps') <= bound
    /\ UNCHANGED <<configVars, stockVars, equityCurve, delistCounter, runVars>>

\* a faulty equity point: stamped with the start of the run
equityPointAtStart(ts) == <<startDate, totalValue, cashBalance>>

\* the entry pushed to equityCurve: [timestamp, totalValue(), cashBalance]
equityPoint(ts) == <<ts, totalValue, cashBalance>>

\* onTick resolves: the equity point of the bar is pushed and the loop advances
CallbackReturn ==
    /\ pc = "callback"
    /\ equityCurve' = Append(equityCurve, equityPoint(BarTs))
    /\ i' = i + 1
    /\ pc' = IF running = "runOnStock" THEN "loop" ELSE "tick"
    /\ lastOp' = "none"
    /\ lastError' = "none"
    /\ lastResult' = NoResult
    /\ lastRequest' = NoRequest
    /\ UNCHANGED <<configVars, stockVars, engineVars, delistCounter, buffers, running, pendingEnsure,
                   stocks, arr, pendingFeatures>>

\* a faulty engine: the failure of onTick is caught and the loop goes on
CallbackThrowCaught ==
    /\ pc = "callback"
    /\ lastError # "none"
    /\ equityCurve' = Append(equityCurve, equityPoint(BarTs))
    /\ i' = i + 1
    /\ pc' = IF running = "runOnStock" THEN "loop" ELSE "tick"
    /\ UNCHANGED <<configVars, stockVars, engineVars, delistCounter, buffers, running,
                   pendingEnsure, stocks, arr, pendingFeatures, lastOp, lastError,
                   lastResult, lastRequest>>

\* onTick rejects with the error of its last call: the run rejects with it
CallbackThrow ==
    /\ pc = "callback"
    /\ lastError # "none"
    /\ pc' = "aborted"
    /\ UNCHANGED <<configVars, stockVars, engineVars, equityCurve, delistCounter, buffers, running,
                   i, pendingEnsure, stocks, arr, pendingFeatures, lastOp, lastError,
                   lastResult, lastRequest>>

\* a JavaScript number that is a quotient: num / den, NaN for 0 / 0 and an
\* infinity for x / 0
Quotient(num, den) ==
    IF den # 0 THEN [kind |-> "number", num |-> num, den |-> den]
    ELSE IF num = 0 THEN [kind |-> "NaN", num |-> 0, den |-> 0]
    ELSE [kind |-> "Infinity", num |-> num, den |-> 0]

Zero == Quotient(0, 1)

\* a < b on quotients; a comparison with NaN is false
LessThan(a, b) ==
    /\ a.kind = "number"
    /\ b.kind = "number"
    /\ IF (a.den > 0) = (b.den > 0)
       THEN a.num * b.den < b.num * a.den
       ELSE a.num * b.den > b.num * a.den

\* a === b on quotients that are numbers
SameNumber(a, b) ==
    /\ a.kind = "number"
    /\ b.kind = "number"
    /\ a.num * b.den = b.num * a.den

\* equityCurve.toSorted((a, b) => a[0] - b[0]): a stable sort by timestamp
RECURSIVE toSorted(_)
toSorted(curve) ==
    IF Len(curve) <= 1 THEN curve
    ELSE LET head == toSorted(SubSeq(curve, 1, Len(curve) - 1))
             last == curve[Len(curve)]
             keep == Cardinality({k \in 1..Len(head) : head[k][1] <= last[1]})
         IN  SubSeq(head, 1, keep) \o <<last>> \o SubSeq(head, keep + 1, Len(head))

\* the equity values of the sorted curve
equitySeries == [k \in 1..Len(equityCurve) |-> toSorted(equityCurve)[k][2]]

\* periodRets: series[i] / series[i - 1] - 1
periodRets(series) ==
    [k \in 1..(Len(series) - 1) |-> Quotient(series[k + 1] - series[k], series[k])]

\* a faulty total return: the ratio itself, without the - 1
totalReturnAsRatio(finalEquity, start) == Quotient(finalEquity, start)

\* finalEquity / startCashBalance - 1
totalReturn(finalEquity, start) == Quotient(finalEquity - start, start)

\* sharpe = stdRet ? (meanRet / stdRet) * sqrt(periodsPerYr) : 0.  stdRet is 0
\* when every period return is the same number and NaN when one of them is
\* not a number; in both cases the result is 0
sharpe(rets) ==
    IF \/ \E k \in 1..Len(rets) : rets[k].kind # "number"
       \/ \A k \in 1..Len(rets) : SameNumber(rets[k], rets[1])
    THEN Zero
    ELSE [kind |-> "meanRet / stdRet * sqrt(periodsPerYr)", num |-> 0, den |-> 0]

\* the draw-down loop: peak and maxDD after the first k equity values
RECURSIVE drawdown(_, _)
drawdown(series, k) ==
    IF k = 0 THEN [peak |-> series[1], maxDD |-> Zero]
    ELSE LET before == drawdown(series, k - 1)
             eq == series[k]
             peak == IF eq > before.peak THEN eq ELSE before.peak
             dd == Quotient(eq - peak, peak)
         IN  [peak |-> peak,
              maxDD |-> IF LessThan(dd, before.maxDD) THEN dd ELSE before.maxDD]

\* Backtest.getMetrics, the fields that do not need a logarithm or a power
getMetrics ==
    LET series == equitySeries
    IN  [trades |-> Len(trades),
         totalFees |-> totalFees,
         totalReturn |-> totalReturn(series[Len(series)], startCashBalance),
         sharpe |-> sharpe(periodRets(series)),
         maxDrawdown |-> drawdown(series, Len(series)).maxDD]

\* a quotient that is the number 0
IsZero(x) == x.kind = "number" /\ x.num = 0

\* getMetrics, its guard only: fewer than two equity points is an error
GetMetrics ==
    /\ pc = "metrics"
    /\ pc' = IF Len(equityCurve) < 2 THEN "failed" ELSE "done"
    /\ UNCHANGED <<configVars, stockVars, engineVars, equityCurve, delistCounter, buffers, running,
                   i, pendingEnsure, stocks, arr, pendingFeatures, lastOp, lastError,
                   lastResult, lastRequest>>

-----------------------------------------------------------------------------
(* Initial states.                                                          *)

\* new Backtest({strategy, startDate, endDate, startCashBalance, broker})
NewBacktest(b, cash, strat, start, end) ==
    /\ broker = b
    /\ startCashBalance = cash
    /\ cashBalance = cash
    /\ stockBalances = EmptyMap
    /\ holdSince = EmptyMap
    /\ stockPrices = EmptyMap
    /\ stockFeatures = EmptyMap
    /\ swaps = <<>>
    /\ trades = <<>>
    /\ equityCurve = <<>>
    /\ delistCounter = EmptyMap
    /\ totalFees = 0
    /\ buffers = EmptyMap
    /\ strategy = strat
    /\ startDate = start
    /\ endDate = end

\* no Stock is under construction
NoStock ==
    /\ builtStock = NullStock
    /\ pushed = <<>>
    /\ lastIndex = 0

\* no run method has been entered
NotRunning(method, at) ==
    /\ running = method
    /\ pc = at
    /\ i = 0
    /\ pendingEnsure = {}
    /\ stocks = EmptyMap
    /\ arr = EmptyMap
    /\ pendingFeatures = EmptyMap
    /\ lastOp = "none"
    /\ lastError = "none"
    /\ lastResult = NoResult
    /\ lastRequest = NoRequest

\* 1970-01-08 00:00 UTC, a Thursday
Epoch == 7 * 86400000

Minute(k) == k * 60000

Hour(k) == k * 3600000

Interval(count, preload) == [count |-> count, preload |-> preload]

\* a strategy whose only timeframe is the main one
Single(name, count) ==
    [main |-> name, intervals |-> (name :> Interval(count, TRUE))]

\* a strategy with a second timeframe
Double(name, count, other, otherCount, otherPreload) ==
    [main |-> name,
     intervals |-> (name :> Interval(count, TRUE))
                   @@ (other :> Interval(otherCount, otherPreload))]

-----------------------------------------------------------------------------
(* Orders placed directly on a Backtest instance.                           *)

InitOrders ==
    /\ \E b \in BrokerSet, cash \in StartCashSet :
          NewBacktest(b, cash, Single("1d", 1), 0, 0)
    /\ db = EmptyMap
    /\ NotRunning("none", "idle")
    /\ NoStock

BuyCall(t, q, p, ts, f, bound) ==
    /\ running = "none"
    /\ buy(t, q, p, ts, f)
    /\ Len(swaps') <= bound
    /\ UNCHANGED <<configVars, stockVars, equityCurve, delistCounter, runVars>>

SellCall(t, q, p, ts, bound) ==
    /\ running = "none"
    /\ sell(t, q, p, ts)
    /\ Len(swaps') <= bound
    /\ UNCHANGED <<configVars, stockVars, equityCurve, delistCounter, runVars>>

OrdersBuy ==
    \E t \in Tickers, q \in QtySet, p \in PriceSet, ts \in OrderTsSet, f \in FeatureSet :
        BuyCall(t, q, p, ts, f, MaxSwaps)

OrdersSell ==
    \E t \in Tickers, q \in QtySet, p \in PriceSet, ts \in OrderTsSet :
        SellCall(t, q, p, ts, MaxSwaps)

NextOrders == OrdersBuy \/ OrdersSell

SpecOrders == InitOrders /\ [][NextOrders]_vars

RawBuy ==
    \E t \in Tickers, q \in RawQtySet, p \in RawPriceSet, ts \in OrderTsSet,
       f \in RawFeatureSet :
        BuyCall(t, q, p, ts, f, MaxRawSwaps)

RawSell ==
    \E t \in Tickers, q \in RawQtySet, p \in RawPriceSet, ts \in OrderTsSet :
        SellCall(t, q, p, ts, MaxRawSwaps)

NextRawOrders == RawBuy \/ RawSell

SpecRawOrders == InitOrders /\ [][NextRawOrders]_vars

\* orders placed one after another, long enough for a position to be sold in
\* two parts
MaxTripSwaps == 3

TripBuy ==
    \E t \in Tickers, q \in QtySet, p \in PriceSet, ts \in OrderTsSet :
        BuyCall(t, q, p, ts, NoFeatures, MaxTripSwaps)

TripSell ==
    \E t \in Tickers, q \in QtySet, p \in PriceSet, ts \in OrderTsSet :
        SellCall(t, q, p, ts, MaxTripSwaps)

NextTrips == TripBuy \/ TripSell

\* orders with and without feature vectors, long enough for a position to be
\* closed and opened again
MaxFeatureSwaps == 4

\* the engine of these orders: a broker that charges nothing, one price
InitFeatures ==
    /\ \E cash \in StartCashSet :
          NewBacktest([kind |-> "base", slippage |-> 0], cash, Single("1d", 1), 0, 0)
    /\ db = EmptyMap
    /\ NotRunning("none", "idle")
    /\ NoStock

FeatureBuy ==
    \E t \in Tickers, q \in QtySet, ts \in OrderTsSet, f \in FeatureSet :
        BuyCall(t, q, 1, ts, f, MaxFeatureSwaps)

FeatureSell ==
    \E t \in Tickers, q \in QtySet, ts \in OrderTsSet :
        SellCall(t, q, 1, ts, MaxFeatureSwaps)

NextFeatures == FeatureBuy \/ FeatureSell

SpecFeatures == InitFeatures /\ [][NextFeatures]_vars

SpecTrips == InitOrders /\ [][NextTrips]_vars

-----------------------------------------------------------------------------
(* A run of runOnStock.                                                     *)

\* a series of one bar per step from offset lo to offset hi of the epoch
RECURSIVE Bars(_, _, _)
Bars(ms, lo, hi) ==
    IF lo > hi THEN <<>>
    ELSE <<Candle(Epoch + lo * ms, IF lo % 4 = 2 THEN 1 ELSE 2)>>
         \o Bars(ms, lo + 1, hi)

\* the datastores of the single-ticker runs: a full minute series, or one
\* that starts after startDate; a 5-minute series beside it
OneDbSet ==
    { ("1m" :> (OneStock :> Bars(60000, lo, NumBars - 1)))
      @@ ("5m" :> (OneStock :> Bars(300000, -1, 2))) : lo \in {0, 3} }

OneStrategySet ==
    { Single("1m", 1), Double("1m", 2, "5m", 1, TRUE), Double("1m", 2, "5m", 1, FALSE) }

OneEndSet == {Epoch + Minute(8), Epoch + Minute(NumBars + 5)}

InitOne ==
    /\ \E cash \in StartCashSet, strat \in OneStrategySet, end \in OneEndSet :
          NewBacktest(RunBroker, cash, strat, Epoch + Minute(2), end)
    /\ db \in OneDbSet
    /\ NotRunning("runOnStock", "start")
    /\ NoStock

\* the timestamps a callback passes to getCandles: the bar's, one step
\* earlier, one step later
TsSet == {BarTs - IntervalMs(MainName), BarTs, BarTs + IntervalMs(MainName)}

Ensure == \E n \in IntervalNames : EnsureStep(n)

GetCandlesCall ==
    /\ pc = "callback"
    /\ \E t \in Items, n \in IntervalNames, count \in CountSet, ts \in TsSet :
          CbGetCandles(t, n, count, ts)

SetFeaturesCall ==
    /\ pc = "callback"
    /\ \E t \in Items, f \in RunFeatureSet : CbSetFeatures(t, f)

BuyOrder ==
    /\ pc = "callback"
    /\ \E t \in Items, q \in RunQtySet :
          CbBuy(t, q, ItemCandle(t).close, MaxRunSwaps)

SellOrder ==
    /\ pc = "callback"
    /\ \E t \in Items, q \in RunQtySet :
          CbSell(t, q, ItemCandle(t).close, MaxRunSwaps)

Callback ==
    \/ GetCandlesCall
    \/ SetFeaturesCall
    \/ BuyOrder
    \/ SellOrder
    \/ CallbackReturn
    \/ CallbackThrow

NextOne ==
    \/ RunOnStockBegin
    \/ Ensure
    \/ PreloadJoin
    \/ LoopHead
    \/ EnsureJoin
    \/ Callback
    \/ GetMetrics

SpecOne == InitOne /\ [][NextOne]_vars

\* the scheduling of a run of runOnStock: every await of the method resolves
\* (the datastore answers each fetch, the event loop runs each continuation),
\* and a callback that does not fail returns
FairOne ==
    /\ WF_vars(RunOnStockBegin \/ Ensure \/ PreloadJoin \/ LoopHead \/ EnsureJoin
               \/ GetMetrics)
    /\ WF_vars(CallbackReturn)

SpecOneFair == SpecOne /\ FairOne

-----------------------------------------------------------------------------
(* A run of runOnAllStocks.                                                 *)

\* the hourly series of a ticker: one bar per hour at the given offsets from
\* the start of the run
HourBars(start, offsets, close) ==
    LET n == Cardinality(offsets)
        RECURSIVE Asc(_)
        Asc(S) == IF S = {} THEN <<>>
                  ELSE LET m == CHOOSE x \in S : \A y \in S : x <= y
                       IN  <<Candle(start + Hour(m), close)>> \o Asc(S \ {m})
    IN  Asc(offsets)

\* the datastore of the multi-ticker runs: B trades every hour; A stops
\* trading after the second date
AllDb(start) ==
    ("1h" :> (("A" :> HourBars(start, {-1, 0, 1}, 1))
              @@ ("B" :> HourBars(start, -1..NumTicks, 2))))
    @@ ("1m" :> ("A" :> <<Candle(start - Minute(1), 1), Candle(start, 1)>>))

AllStrategySet == { Single("1h", 1), Double("1h", 2, "1m", 1, FALSE) }

\* Thursday 00:00 and Friday 22:00
AllStartSet == {Epoch, Epoch + Hour(46)}

InitAll ==
    /\ \E cash \in StartCashSet, strat \in AllStrategySet, start \in AllStartSet :
          /\ NewBacktest(RunBroker, cash, strat, start, start + Hour(NumTicks - 1))
          /\ db = AllDb(start)
    /\ NotRunning("runOnAllStocks", "start")
    /\ NoStock

NextAll ==
    \/ RunOnAllStocksBegin
    \/ Tick
    \/ Callback
    \/ GetMetrics

SpecAll == InitAll /\ [][NextAll]_vars

-----------------------------------------------------------------------------
(* A run of runOnAllStocks over a ticker that does not trade every hour.    *)

NumGapTicks == 5

\* the datastore of the run: B trades every hour; A has a bar 60 hours before
\* the start, before the range loaded for a lookback of 1, bars one hour
\* before the start and at the start, and then none until the fourth date
GapDb(start) ==
    "1h" :> (("A" :> HourBars(start, {-60, -1, 0, 3}, 1))
             @@ ("B" :> HourBars(start, -1..NumGapTicks, 2)))

InitGap ==
    /\ \E cash \in StartCashSet, count \in CountSet :
          NewBacktest(RunBroker, cash, Single("1h", count), Epoch,
                      Epoch + Hour(NumGapTicks - 1))
    /\ db = GapDb(Epoch)
    /\ NotRunning("runOnAllStocks", "start")
    /\ NoStock

NextGap ==
    \/ RunOnAllStocksBegin
    \/ Tick
    \/ GetCandlesCall
    \/ CallbackReturn
    \/ CallbackThrow
    \/ GetMetrics

SpecGap == InitGap /\ [][NextGap]_vars

-----------------------------------------------------------------------------
(* A run of runOnAllStocks over more dates than one chunk holds.            *)

NumLongTicks == 610

MaxDelistSwaps == 2

\* the dates (0-based) at which the strategy of the long run places orders: the
\* first one, and a Friday of the second chunk
TradeTickSet == {0, 540}

\* the first date at which a row lies outside the range loaded for the first
\* chunk: the chunk's last date plus four days, plus one hour
ReturnTick == allStocksPreloadAmounts("1h") - 1 + 4 * 24 + 1

\* the last date of the first chunk at which A has a row: the second date of
\* the run, or the date before the chunk's last
LastEarlySet == {1, allStocksPreloadAmounts("1h") - 2}

\* date k (0-based) of the long run.  The run starts on 1969-12-18 00:00 UTC,
\* a Thursday: with this start every timestamp of the run, in milliseconds,
\* fits a 32-bit integer
LongDate(k) == Hour(k - 14 * 24)

\* one bar per hour at the dates lo..hi of the long run
LongBars(lo, hi, close) ==
    [k \in 1..(hi - lo + 1) |-> Candle(LongDate(lo + k - 1), close)]

\* the datastore of the long run: B trades every hour; A trades up to a date
\* of the first chunk, then once more at ReturnTick
LongDb(lastEarly) ==
    "1h" :> (("A" :> (LongBars(lastEarly - 1, lastEarly, 1)
                      \o LongBars(ReturnTick, ReturnTick, 1)))
             @@ ("B" :> LongBars(-1, NumLongTicks, 2)))

InitLong ==
    /\ \E cash \in StartCashSet, lastEarly \in LastEarlySet :
          /\ NewBacktest(RunBroker, cash, Single("1h", 1), LongDate(0),
                         LongDate(NumLongTicks - 1))
          /\ db = LongDb(lastEarly)
    /\ NotRunning("runOnAllStocks", "start")
    /\ NoStock

TradeBuy ==
    /\ pc = "callback"
    /\ i \in TradeTickSet
    /\ \E t \in Items, q \in RunQtySet :
          CbBuy(t, q, ItemCandle(t).close, MaxDelistSwaps)

TradeSell ==
    /\ pc = "callback"
    /\ i \in TradeTickSet
    /\ \E t \in Items, q \in RunQtySet :
          CbSell(t, q, ItemCandle(t).close, MaxDelistSwaps)

NextLong ==
    \/ RunOnAllStocksBegin
    \/ Tick
    \/ TradeBuy
    \/ TradeSell
    \/ CallbackReturn
    \/ GetMetrics

SpecLong == InitLong /\ [][NextLong]_vars

-----------------------------------------------------------------------------
(* A Stock built by pushCandle calls or by a loader, and read back.         *)

MaxRows == 3

\* the timestamps of the candles pushed: three minutes, with a gap
StockTsSet == {Epoch, Epoch + Minute(1), Epoch + Minute(3)}

\* the timestamps getIndex is asked for
QueryTsSet == {Epoch + Minute(k) : k \in 0..3}

\* the prices of the candles pushed: 57 dollars, which is a single-precision
\* float, and 56.78 dollars, which is not
StockPriceSet == {Exactly(570000), Exactly(567800)}

StockCandleSet ==
    {StockCandle(p, p, p, p, 2822, 42, ts) : p \in StockPriceSet, ts \in StockTsSet}

\* the datastore the loaders read: three minute bars
StockDb == "1m" :> (OneStock :> Bars(60000, 0, 2))

InitStock ==
    /\ NewBacktest(RunBroker, 0, Single("1m", 1), Epoch, Epoch)
    /\ db = StockDb
    /\ NotRunning("none", "idle")
    /\ builtStock = NewStock
    /\ pushed = <<>>
    /\ lastIndex = 0

\* stock.pushCandle(candle)
PushCandleCall ==
    /\ running = "none"
    /\ size(builtStock) < MaxRows
    /\ \E candle \in StockCandleSet :
          /\ builtStock' = pushCandle(builtStock, candle)
          /\ pushed' = Append(pushed, candle)
    /\ lastOp' = "pushCandle"
    /\ lastIndex' = 0
    /\ lastRequest' = NoRequest
    /\ UNCHANGED <<configVars, engineVars, equityCurve, delistCounter, runVars,
                   lastError, lastResult>>

\* stock.getIndex(ts), with a number or with a Date
GetIndexCall ==
    /\ running = "none"
    /\ size(builtStock) > 0
    /\ \E ts \in QueryTsSet, isDate \in BOOLEAN :
          /\ lastIndex' = getIndex(iterate(builtStock), ts, isDate)
          /\ lastRequest' = Request("", "", 0, ts)
    /\ lastOp' = "getIndex"
    /\ UNCHANGED <<configVars, engineVars, equityCurve, delistCounter, runVars,
                   lastError, lastResult, builtStock, pushed>>

\* loadStockAfterTimestamp(stockName, interval, date, candlesCount)
LoadAfterCall ==
    /\ running = "none"
    /\ \E from \in QueryTsSet, n \in 1..MaxRows :
          LET rows == loadStockAfterTimestamp(Series("1m", OneStock), from, n)
              candles == [k \in 1..Len(rows) |-> rowCandle(rows[k])]
          IN  /\ builtStock' = pushAll(NewStock, candles)
              /\ pushed' = candles
    /\ lastOp' = "loadStockAfterTimestamp"
    /\ lastIndex' = 0
    /\ lastRequest' = NoRequest
    /\ UNCHANGED <<configVars, engineVars, equityCurve, delistCounter, runVars,
                   lastError, lastResult>>

\* loadStockBeforeTimestamp(stockName, interval, date, candlesCount)
LoadBeforeCall ==
    /\ running = "none"
    /\ \E upto \in QueryTsSet, n \in 1..MaxRows :
          LET rows == loadStockBeforeTimestamp(Series("1m", OneStock), upto, n)
              candles == [k \in 1..Len(rows) |-> rowCandle(rows[k])]
          IN  /\ builtStock' = pushAll(NewStock, candles)
              /\ pushed' = candles
    /\ lastOp' = "loadStockBeforeTimestamp"
    /\ lastIndex' = 0
    /\ lastRequest' = NoRequest
    /\ UNCHANGED <<configVars, engineVars, equityCurve, delistCounter, runVars,
                   lastError, lastResult>>

NextStock ==
    \/ PushCandleCall
    \/ GetIndexCall
    \/ LoadAfterCall
    \/ LoadBeforeCall

SpecStock == InitStock /\ [][NextStock]_vars

\* a Stock filled past the initial capacity of its columns
NumPushes == 502

\* the k-th candle pushed (k from 0): one per minute, at prices that are
\* single-precision floats
GrowCandle(k) ==
    StockCandle(Exactly(625 * (k + 1)), Exactly(625 * (k + 3)), Exactly(625 * k),
                Exactly(625 * (k + 2)), k, k + 1, Epoch + Minute(k))

InitGrow ==
    /\ NewBacktest(RunBroker, 0, Single("1m", 1), Epoch, Epoch)
    /\ db = EmptyMap
    /\ NotRunning("none", "idle")
    /\ builtStock = NewStock
    /\ pushed = <<>>
    /\ lastIndex = 0

\* stock.pushCandle(candle), for the next candle of the series
GrowPush ==
    /\ running = "none"
    /\ size(builtStock) < NumPushes
    /\ builtStock' = pushCandle(builtStock, GrowCandle(size(builtStock)))
    /\ pushed' = Append(pushed, GrowCandle(size(builtStock)))
    /\ lastOp' = "pushCandle"
    /\ UNCHANGED <<configVars, engineVars, equityCurve, delistCounter, runVars,
                   lastError, lastResult, lastRequest, lastIndex>>

SpecGrow == InitGrow /\ [][GrowPush]_vars

-----------------------------------------------------------------------------
(* A CandleBuffer used on its own: constructed, then topped up by ensure.   *)

\* the number of minute bars of the longest series
NumBufBars == 25

\* the minute series the buffer reads: long, short, or starting late
BufDbSet ==
    { "1m" :> (OneStock :> Bars(60000, lo, hi)) :
        <<lo, hi>> \in {<<0, NumBufBars - 1>>, <<0, 7>>, <<3, NumBufBars - 1>>} }

BufEndSet == {Epoch + Minute(12), Epoch + Minute(NumBufBars + 15)}

BufLookbackSet == {1, 2}

\* the timestamps ensure is called with
EnsureTsSet == {Epoch + Minute(k) : k \in {2, 5, 9, 14, 20}}

InitBuffer ==
    /\ \E end \in BufEndSet :
          NewBacktest(RunBroker, 0, Single("1m", 1), Epoch + Minute(2), end)
    /\ db \in BufDbSet
    /\ NotRunning("none", "idle")
    /\ NoStock

\* new CandleBuffer(stockName, interval, startDate, endDate, lookback)
ConstructBuffer ==
    /\ running = "none"
    /\ buffers = EmptyMap
    /\ \E lookback \in BufLookbackSet :
          buffers' = ("1m" :> NewCandleBuffer("1m", startDate, lookback))
    /\ lastOp' = "new CandleBuffer"
    /\ UNCHANGED <<configVars, stockVars, engineVars, equityCurve, delistCounter,
                   running, pc, i, pendingEnsure, stocks, arr, pendingFeatures,
                   lastError, lastResult, lastRequest>>

\* buf.ensure(currentTs), awaited
EnsureCall ==
    /\ running = "none"
    /\ Has(buffers, "1m")
    /\ \E ts \in EnsureTsSet :
          /\ buffers' = [buffers EXCEPT
                            !["1m"] = ensure(@, Series("1m", OneStock), endDate, ts)]
          /\ lastRequest' = Request(OneStock, "1m", 0, ts)
    /\ lastOp' = "ensure"
    /\ UNCHANGED <<configVars, stockVars, engineVars, equityCurve, delistCounter,
                   running, pc, i, pendingEnsure, stocks, arr, pendingFeatures,
                   lastError, lastResult>>

NextBuffer == ConstructBuffer \/ EnsureCall

SpecBuffer == InitBuffer /\ [][NextBuffer]_vars

-----------------------------------------------------------------------------
(* The brokers, constructed and asked for the fees of an order.             *)

\* a Backtest that is not running, for the calls made on other classes
InitStrategy ==
    /\ NewBacktest(RunBroker, 0, Single("1d", 1), 0, 0)
    /\ db = EmptyMap
    /\ NotRunning("none", "idle")
    /\ NoStock

\* new IBKR(feeType): the constructor takes the fee type only; a second
\* argument is not read
newIBKR(feeType, slippage) ==
    [kind |-> IF feeType = "fixed" THEN "ibkr_fixed" ELSE "ibkr_tiered", slippage |-> 0]

\* new Alpaca(slippage), of brokers/alpaca.js
newAlpaca(slippage) == [kind |-> "alpaca", slippage |-> slippage]

\* new Alpaca(slippage, paper, apiKey, apiSecret), of the second class of
\* part_004
newAlpacaCapped(slippage) == [kind |-> "alpaca_capped", slippage |-> slippage]

\* the Alpaca classes of the source tree
AlpacaClasses == {"brokers/alpaca.js", "part_004"}

\* share quantities of the orders priced: below, at and above the minimum
\* commissions
FeeQtySet == {1, 10, 100, 200, 400}

\* prices: a hundredth of a cent, 10 dollars, 50 dollars
FeePriceSet == {1, 100000, 500000}

\* slippage, in ten-thousandths of the notional
SlippageSet == {0, 1, 5}

\* share quantities and prices of the orders priced by Alpaca: up to more
\* shares than the TAF cap counts
AlpacaQtySet == {1, 100, 50205, 60000}

AlpacaPriceSet == {1, 100}

Sides == {"buy", "sell"}

FeeResult(fee) == [kind |-> "fee", fee |-> fee]

\* new IBKR(feeType, slippage).calculateFees(quantity, price, side)
IBKRFeeCall ==
    /\ running = "none"
    /\ \E feeType \in {"fixed", "tiered"}, slippage \in SlippageSet,
          quantity \in FeeQtySet, price \in FeePriceSet, side \in Sides :
          /\ lastRequest' = [broker |-> "IBKR", feeType |-> feeType,
                             slippage |-> slippage, quantity |-> quantity,
                             price |-> price, side |-> side]
          /\ lastResult' = FeeResult(calculateFees(newIBKR(feeType, slippage),
                                                   quantity, price, side))
    /\ lastOp' = "calculateFees"
    /\ UNCHANGED <<configVars, stockVars, engineVars, equityCurve, delistCounter, runVars,
                   lastError>>

\* new Alpaca(slippage).calculateFees(quantity, price, side)
AlpacaFeeCall ==
    /\ running = "none"
    /\ \E class \in AlpacaClasses, slippage \in SlippageSet, quantity \in AlpacaQtySet,
          price \in AlpacaPriceSet, side \in Sides :
          /\ lastRequest' = [broker |-> "Alpaca", feeType |-> class,
                             slippage |-> slippage, quantity |-> quantity,
                             price |-> price, side |-> side]
          /\ lastResult' = FeeResult(calculateFees(IF class = "part_004"
                                                   THEN newAlpacaCapped(slippage)
                                                   ELSE newAlpaca(slippage),
                                                   quantity, price, side))
    /\ lastOp' = "calculateFees"
    /\ UNCHANGED <<configVars, stockVars, engineVars, equityCurve, delistCounter, runVars,
                   lastError>>

NextFees == IBKRFeeCall \/ AlpacaFeeCall

SpecFees == InitStrategy /\ [][NextFees]_vars

-----------------------------------------------------------------------------
(* The Strategy constructor.                                                *)

\* consts.js allowedIntervals
allowedIntervals == {"1d", "1h", "5m", "1m"}

\* a faulty check: a count of 0 passes
candlesRejectedBelowZero(candles) == candles < 0

\* line 120: iv.candles < 1
candlesRejected(candles) == candles < 1

\* the intervals whose main is truthy, in order
RECURSIVE mainsOf(_)
mainsOf(intervals) ==
    IF intervals = <<>> THEN <<>>
    ELSE (IF intervals[1].main THEN <<intervals[1]>> ELSE <<>>)
         \o mainsOf(Tail(intervals))

NoStrategy == [intervals |-> <<>>, mainInterval |-> <<>>]

\* new Strategy({intervals, onTick}): [error, strategy].  An interval is
\* [name, candles, main, typed], typed telling whether name is a string and
\* candles a number
newStrategy(isArray, intervals, onTickIsFunction) ==
    IF ~isArray \/ Len(intervals) = 0
    THEN [error |-> "TypeError", strategy |-> NoStrategy]
    ELSE IF \E k \in 1..Len(intervals) :
               \/ ~intervals[k].typed
               \/ intervals[k].name \notin allowedIntervals
               \/ candlesRejected(intervals[k].candles)
    THEN [error |-> "TypeError", strategy |-> NoStrategy]
    ELSE IF Len(mainsOf(intervals)) # 1
    THEN [error |-> "TypeError", strategy |-> NoStrategy]
    ELSE IF ~onTickIsFunction
    THEN [error |-> "TypeError", strategy |-> NoStrategy]
    ELSE [error |-> "none",
          strategy |-> [intervals |-> intervals, mainInterval |-> mainsOf(intervals)[1]]]

\* the longest intervals array tried
MaxIntervals == 2

\* names given to an interval: the four allowed ones and one that is not
NameArgSet == allowedIntervals \cup {"2h"}

CandlesArgSet == {0, 1, 2}

IntervalArgSet ==
    [name : NameArgSet, candles : CandlesArgSet, main : BOOLEAN, typed : BOOLEAN]

RECURSIVE SeqsUpTo(_, _)
SeqsUpTo(S, n) ==
    IF n = 0 THEN {<<>>}
    ELSE SeqsUpTo(S, n - 1)
         \cup {Append(q, x) : q \in {r \in SeqsUpTo(S, n - 1) : Len(r) = n - 1}, x \in S}

\* new Strategy(...) called by the host, once
ConstructStrategy ==
    /\ running = "none"
    /\ lastOp = "none"
    /\ \E isArray \in BOOLEAN, intervals \in SeqsUpTo(IntervalArgSet, MaxIntervals),
          onTickIsFunction \in BOOLEAN :
          LET out == newStrategy(isArray, intervals, onTickIsFunction)
          IN  /\ lastRequest' = [isArray |-> isArray, intervals |-> intervals,
                                 onTick |-> onTickIsFunction]
              /\ lastError' = out.error
              /\ lastResult' = out.strategy
    /\ lastOp' = "new Strategy"
    /\ UNCHANGED <<configVars, stockVars, engineVars, equityCurve, delistCounter, runVars>>

SpecStrategy == InitStrategy /\ [][ConstructStrategy]_vars

-----------------------------------------------------------------------------
(* Runs whose callback places no order.                                     *)

\* the starting cash of the idle runs: none, or some
IdleCashSet == {0, 31000}

\* the ends of the idle single-ticker runs: after one bar, or later
IdleEndSet == {Epoch + Minute(3)} \cup OneEndSet

InitIdle ==
    /\ \/ /\ \E cash \in IdleCashSet, strat \in OneStrategySet, end \in IdleEndSet :
                NewBacktest(RunBroker, cash, strat, Epoch + Minute(2), end)
          /\ db \in OneDbSet
          /\ NotRunning("runOnStock", "start")
       \/ /\ \E cash \in IdleCashSet, strat \in AllStrategySet, start \in AllStartSet :
                /\ NewBacktest(RunBroker, cash, strat, start, start + Hour(NumTicks - 1))
                /\ db = AllDb(start)
          /\ NotRunning("runOnAllStocks", "start")
    /\ NoStock

NextIdle ==
    \/ RunOnStockBegin
    \/ Ensure
    \/ PreloadJoin
    \/ LoopHead
    \/ EnsureJoin
    \/ RunOnAllStocksBegin
    \/ Tick
    \/ GetCandlesCall
    \/ SetFeaturesCall
    \/ CallbackReturn
    \/ CallbackThrow
    \/ GetMetrics

SpecIdle == InitIdle /\ [][NextIdle]_vars

\* either run
InitRuns == InitOne \/ InitAll

NextRuns ==
    \/ RunOnStockBegin
    \/ Ensure
    \/ PreloadJoin
    \/ LoopHead
    \/ EnsureJoin
    \/ RunOnAllStocksBegin
    \/ Tick
    \/ Callback
    \/ GetMetrics

SpecRuns == InitRuns /\ [][NextRuns]_vars

-----------------------------------------------------------------------------
(* Properties of the order accounting.                                      *)

\* C1: after any sequence of buy and sell calls, accepted or rejected, under
\* any of the fee policies, the cash balance is never negative.
C1_CashNeverNegative == cashBalance >= 0

\* C2: every ticker that has an entry in stockBalances holds a strictly
\* positive number of shares; no entry with a zero balance is left in the map.
C2_BalancesStrictlyPositive ==
    \A t \in DOMAIN stockBalances : stockBalances[t] > 0

\* C3: after every completed buy or sell, totalFees is the sum of the fee
\* fields of all entries of swaps.
C3_TotalFeesIsSumOfSwapFees == totalFees = SumFees(swaps)

\* a sell has completed after a buy, and fees were charged
C3_Witness ==
    /\ lastOp = "sell"
    /\ lastError = "none"
    /\ Len(swaps) >= 2
    /\ swaps[Len(swaps)].fee > 0
    /\ totalFees > swaps[Len(swaps)].fee

\* C4: a ticker whose balance has reached zero, by a full sell or by a
\* delisting drop, has no entry in holdSince and no entry in stockFeatures.
C4_ClosedPositionLeavesNoTrace ==
    \A t \in Tickers :
        ~Has(stockBalances, t) => ~Has(holdSince, t) /\ ~Has(stockFeatures, t)

\* C5: a buy whose cost plus fee exceeds the cash balance fails with the
\* insufficient-cash error and leaves cashBalance, stockBalances, stockPrices,
\* holdSince, stockFeatures, swaps, trades and totalFees unchanged.
C5_BuyBeyondCashRejected ==
    [][\A t \in Tickers, q \in QtySet, p \in PriceSet, ts \in OrderTsSet,
          f \in FeatureSet :
          (/\ Notional(q, p) + calculateFees(broker, q, p, "buy") > cashBalance
           /\ BuyCall(t, q, p, ts, f, MaxSwaps))
          => /\ lastError' = "InsufficientCash"
             /\ UNCHANGED <<cashBalance, stockBalances, stockPrices, holdSince,
                            stockFeatures, swaps, trades, totalFees>>]_vars

\* a buy has just been refused on an engine that has already traded
C5_Witness ==
    /\ lastOp = "buy"
    /\ lastError = "InsufficientCash"
    /\ Len(swaps) > 0
    /\ cashBalance > 0

\* C6: a sell of a ticker that has no entry in stockBalances, or of more
\* shares than are held, fails with the insufficient-shares error and leaves
\* cashBalance, stockBalances, stockPrices, swaps, trades and totalFees
\* unchanged.
C6_SellBeyondHoldingRejected ==
    [][\A t \in Tickers, q \in QtySet, p \in PriceSet, ts \in OrderTsSet :
          (/\ ~Has(stockBalances, t) \/ stockBalances[t] < q
           /\ SellCall(t, q, p, ts, MaxSwaps))
          => /\ lastError' = "InsufficientShares"
             /\ UNCHANGED <<cashBalance, stockBalances, stockPrices, swaps, trades,
                            totalFees>>]_vars

\* a sell has just been refused although every ticker is held: it asked for
\* more shares than the one share held
C6_Witness ==
    /\ lastOp = "sell"
    /\ lastError = "InsufficientShares"
    /\ \A t \in Tickers : Has(stockBalances, t) /\ stockBalances[t] = 1

\* C7: a buy or a sell whose quantity or price is not strictly positive is
\* rejected with an error and changes no engine state.
C7_NonPositiveOrderRejected ==
    [][\A t \in Tickers, q \in RawQtySet, p \in RawPriceSet, ts \in OrderTsSet :
          (q <= 0 \/ p <= 0)
          => /\ \A f \in RawFeatureSet :
                   BuyCall(t, q, p, ts, f, MaxRawSwaps)
                   => lastError' # "none" /\ UNCHANGED engineVars
             /\ SellCall(t, q, p, ts, MaxRawSwaps)
                => lastError' # "none" /\ UNCHANGED engineVars]_vars

-----------------------------------------------------------------------------
(* Properties of the runs.                                                  *)

\* C8: in runOnStock and in runOnAllStocks, getCandles called with a
\* timestamp later than the current bar's fails with an error and delivers no
\* candles, whatever the timeframe asked for.
C8_FutureRequestRejected ==
    (pc = "callback" /\ lastOp = "getCandles" /\ lastRequest.ts > BarTs)
    => lastError # "none" /\ lastResult = NoResult

\* callbacks of runOnAllStocks have had requests for the future refused on
\* the main timeframe
C8_Witness ==
    /\ running = "runOnAllStocks"
    /\ pc = "callback"
    /\ lastOp = "getCandles"
    /\ lastRequest.ts > BarTs
    /\ lastRequest.intervalName = MainName
    /\ lastError = "Lookahead"

\* C9: in runOnStock with lookback k on the main timeframe, getCandles(main, k)
\* called in the callback of main-buffer bar i returns the bars
\* i, i-1, ..., i-k+1, newest first.
C9_MainLookbackWindow ==
    (/\ running = "runOnStock"
     /\ pc = "callback"
     /\ lastOp = "getCandles"
     /\ lastRequest = Request(OneStock, MainName, Lookback, BarTs))
    => /\ lastError = "none"
       /\ lastResult = CandlesResult([k \in 1..Lookback |-> MainBuf[i + 2 - k]])

\* C10: in runOnStock with main lookback L the callback is never invoked for
\* the main-buffer bars 0..L-2, and getCandles(main, L) in the first
\* invocation returns exactly L bars.
C10_FirstInvocationHasFullLookback ==
    (running = "runOnStock" /\ pc = "callback")
    => /\ i >= Lookback - 1
       /\ (/\ equityCurve = <<>>
           /\ lastOp = "getCandles"
           /\ lastRequest = Request(OneStock, MainName, Lookback, BarTs))
          => /\ lastResult.kind = "candles"
             /\ Len(lastResult.candles) = Lookback

\* the callback of runOnStock runs only at a main-buffer index >= L - 1
CallbackOnlyAfterLookback ==
    (running = "runOnStock" /\ pc = "callback") => i >= Lookback - 1

\* the number of candles of a buffer with timestamp <= ts
heldUpTo(buffer, ts) ==
    Cardinality({k \in 1..Len(buffer) : buffer[k].timestamp <= ts})

\* C11: in runOnStock, when the buffer of a preloaded timeframe holds fewer
\* than count candles with timestamp <= the requested timestamp, getCandles
\* returns null to the callback and throws nothing.
C11_ShortBufferReturnsNull ==
    (/\ running = "runOnStock"
     /\ pc = "callback"
     /\ lastOp = "getCandles"
     /\ lastRequest.intervalName \in PreloadNames
     /\ lastRequest.ts <= BarTs
     /\ heldUpTo(buffers[lastRequest.intervalName].buffer, lastRequest.ts)
            < lastRequest.count)
    => /\ lastError = "none"
       /\ lastResult = NullResult

\* C12: at every point of a run, the timestamps of the entries of equityCurve
\* are non-decreasing in the order they were appended.
C12_EquityTimestampsNonDecreasing ==
    \A k \in 1..(Len(equityCurve) - 1) : equityCurve[k][1] <= equityCurve[k + 1][1]

\* a run has appended three equity points
C12_Witness ==
    /\ running \in {"runOnStock", "runOnAllStocks"}
    /\ Len(equityCurve) >= 3
    /\ equityCurve[1][1] < equityCurve[3][1]

\* the Stocks runOnAllStocks holds while it walks date j (0-based): those of
\* the chunk of j
chunkStocks(j) ==
    LET amount == allStocksPreloadAmounts(MainName)
        first == j - (j % amount)
        last == IF first + amount < Len(Dates) THEN first + amount ELSE Len(Dates)
    IN  loadAllStocksInRange(MainName,
            Dates[first + 1] - strategy.intervals[MainName].count * 2 * 86400000,
            Dates[last] + 4 * 86400000)

\* the per-symbol set of date j: the tickers whose Stock has a candle at the
\* index getIndex gives for the date
perSymbolSet(j) ==
    LET loaded == chunkStocks(j)
    IN  {t \in DOMAIN loaded : hasCandle(loaded[t], getIndex(loaded[t], Dates[j + 1], TRUE))}

\* date j is dispatched: it is no weekend day and its per-symbol set is not empty
dispatched(j) == Weekday(Dates[j + 1]) \notin {0, 6} /\ perSymbolSet(j) # {}

\* the timestamps of the bars whose callback has returned, in order: the main
\* buffer's bars from lookback - 1 up to i - 1 (runOnStock), the dispatched
\* dates before date i (runOnAllStocks)
returnedBars ==
    IF running = "runOnStock"
    THEN [k \in 1..(i - (Lookback - 1)) |-> MainBuf[Lookback - 1 + k].timestamp]
    ELSE LET RECURSIVE upTo(_)
             upTo(j) == IF j < 0 THEN <<>>
                        ELSE IF dispatched(j) THEN Append(upTo(j - 1), Dates[j + 1])
                        ELSE upTo(j - 1)
         IN  upTo(i - 1)

\* C13: exactly one equityCurve entry is appended per callback invocation,
\* right after the callback returns and before the next bar is processed: at
\* every point of the loop, and at its end, equityCurve has one entry for each
\* bar whose callback has returned (runOnStock: the bars dispatched;
\* runOnAllStocks: the dates with a non-empty per-symbol set), in order, and
\* none for any other bar.
C13_OneEquityPointPerInvocation ==
    (/\ running \in {"runOnStock", "runOnAllStocks"}
     /\ pc \in {"loop", "ensure", "tick", "callback", "metrics", "done", "failed"})
    => /\ Len(equityCurve) = Len(returnedBars)
       /\ \A k \in 1..Len(equityCurve) : equityCurve[k][1] = returnedBars[k]
       /\ (running = "runOnAllStocks" /\ pc = "callback") => dispatched(i)

\* a run of runOnAllStocks has ended after callbacks returned and after dates
\* were passed over without a callback
C13_Witness ==
    /\ running = "runOnAllStocks"
    /\ pc = "done"
    /\ Len(equityCurve) >= 2
    /\ Len(equityCurve) < i

-----------------------------------------------------------------------------
(* Properties of delisting detection and of the weekend skip.               *)

\* the number of consecutive dispatched dates, the last of them date j, on
\* which ticker t is absent from the per-symbol set; counted up to cap
RECURSIVE absentRun(_, _, _)
absentRun(t, j, cap) ==
    IF j < 0 \/ cap = 0 THEN 0
    ELSE IF ~dispatched(j) THEN absentRun(t, j - 1, cap)
    ELSE IF t \in perSymbolSet(j) THEN 0
    ELSE 1 + absentRun(t, j - 1, cap - 1)

\* C14: in runOnAllStocks a held ticker is still in stockBalances after the
\* delisting pass of the 10th of 10 consecutive dispatched dates it is absent
\* from, and is removed by the pass of the 11th.
C14_DroppedAtEleventhAbsence ==
    [][\A t \in Tickers :
          (/\ running = "runOnAllStocks"
           /\ pc = "tick"
           /\ pc' = "callback"
           /\ t \in DOMAIN stockBalances
           /\ t \notin DOMAIN arr')
          => /\ absentRun(t, i, 12) = 10 => t \in DOMAIN stockBalances'
             /\ absentRun(t, i, 12) = 11 => t \notin DOMAIN stockBalances']_vars

\* C15: in runOnAllStocks delistCounter counts consecutive missing bars: a held
\* ticker is dropped by the delisting pass only if it was absent from the
\* per-symbol set of each of the 11 most recent dispatched dates, a date on
\* which it is present, or a new purchase after a drop, restarting the count.
C15_DroppedOnlyAfterElevenInARow ==
    [][\A t \in Tickers :
          (/\ running = "runOnAllStocks"
           /\ pc = "tick"
           /\ t \in DOMAIN stockBalances
           /\ t \notin DOMAIN stockBalances')
          => absentRun(t, i, 11) = 11]_vars

\* C16: a delisting drop removes the ticker's stockBalances entry and nothing
\* else: it appends nothing to swaps or trades, leaves cashBalance and
\* totalFees unchanged, and leaves the balance of every ticker that is not
\* dropped as it was.
C16_DropRemovesOnlyTheBalance ==
    [][\A t \in Tickers :
          (/\ running = "runOnAllStocks"
           /\ pc = "tick"
           /\ pc' = "callback"
           /\ t \in DOMAIN stockBalances
           /\ t \notin DOMAIN arr'
           /\ GetOr0(delistCounter', t) > 10)
          => /\ t \notin DOMAIN stockBalances'
             /\ \A u \in DOMAIN stockBalances' :
                   u \in DOMAIN stockBalances /\ stockBalances'[u] = stockBalances[u]
             /\ \A u \in (DOMAIN stockBalances) \ (DOMAIN stockBalances') :
                   u \notin DOMAIN arr' /\ GetOr0(delistCounter', u) > 10
             /\ UNCHANGED <<swaps, trades, cashBalance, totalFees>>]_vars

\* a position bought during the run has just been dropped: the one swap is
\* its buy and there is no trade
C16_Witness ==
    /\ running = "runOnAllStocks"
    /\ pc = "callback"
    /\ lastOp = "none"
    /\ GetOr0(delistCounter, "A") = 11
    /\ ~Has(stockBalances, "A")
    /\ Len(swaps) = 1
    /\ swaps[1].stockName = "A"
    /\ trades = <<>>
    /\ cashBalance < startCashBalance

\* C17: in runOnAllStocks a date that falls on a Saturday or a Sunday (UTC) is
\* not dispatched: the callback is not invoked, stockPrices and delistCounter
\* are not updated and nothing is appended to equityCurve.
C17_WeekendNotDispatched ==
    [][(/\ running = "runOnAllStocks"
        /\ pc = "tick"
        /\ i < Len(Dates)
        /\ Weekday(CurrentDate) \in {0, 6})
       => /\ pc' = "tick"
          /\ i' = i + 1
          /\ UNCHANGED <<stockPrices, delistCounter, stockBalances, equityCurve>>]_vars

\* a Saturday date has just been passed over while a ticker that has stopped
\* trading was held
C17_Witness ==
    /\ running = "runOnAllStocks"
    /\ pc = "tick"
    /\ i >= 3
    /\ Weekday(Dates[i]) = 6
    /\ Has(stockBalances, "A")
    /\ delistCounter = EmptyMap
    /\ Len(equityCurve) = 2

-----------------------------------------------------------------------------
(* Properties of the Stock.                                                 *)

\* the timestamps of a sequence of candles are strictly ascending
ascending(rows) ==
    \A k \in 1..(Len(rows) - 1) : rows[k].timestamp < rows[k + 1].timestamp

\* C18: for a Stock whose rows are strictly ascending and a ts between its
\* first and its last timestamp, getIndex(ts) is the row with the greatest
\* timestamp <= ts: that row's timestamp is <= ts and no row has a timestamp
\* after it and up to ts.
C18_GetIndexIsLastRowUpTo ==
    LET rows == iterate(builtStock)
        ts == lastRequest.ts
    IN  (/\ lastOp = "getIndex"
         /\ ascending(rows)
         /\ rows[1].timestamp <= ts
         /\ ts <= rows[Len(rows)].timestamp)
        => /\ hasCandle(rows, lastIndex)
           /\ getCandle(rows, lastIndex).timestamp <= ts
           /\ \A k \in 1..Len(rows) :
                 ~(/\ getCandle(rows, lastIndex).timestamp < rows[k].timestamp
                   /\ rows[k].timestamp <= ts)

\* C19: after n candles were pushed to a Stock in ascending time, iterating
\* the Stock yields the same n candles in the same order.
C19_IterationYieldsPushedCandles ==
    (/\ lastOp \in {"pushCandle", "loadStockAfterTimestamp"}
     /\ ascending(pushed))
    => iterate(builtStock) = pushed

\* C20: after any sequence of pushCandle calls, those of the loaders included,
\* the rows of a Stock are strictly ascending by timestamp and its seven
\* columns have the same length (so a pushCandle whose timestamp is not after
\* the previous row's has appended nothing).
C20_RowsStrictlyAscending ==
    lastOp \in {"pushCandle", "getIndex", "loadStockAfterTimestamp",
                "loadStockBeforeTimestamp"}
    => /\ ascending(iterate(builtStock))
       /\ \A n \in {builtStock.opens.length, builtStock.closes.length,
                    builtStock.highs.length, builtStock.lows.length,
                    builtStock.timestamps.length, builtStock.transactions.length} :
             n = builtStock.volumes.length

\* the order and the number of the candles survive the growth of the columns:
\* for candles pushed in ascending time whose prices are single-precision
\* floats, iterating the Stock yields them as they were pushed
RepresentableCandlesRoundTrip ==
    (/\ lastOp \in {"pushCandle", "loadStockAfterTimestamp"}
     /\ ascending(pushed)
     /\ \A k \in 1..Len(pushed) :
           \A x \in {pushed[k].open, pushed[k].high, pushed[k].low, pushed[k].close} :
               fround(x) = x)
    => /\ iterate(builtStock) = pushed
       /\ Len(builtStock.closes.buffer) >= size(builtStock)

\* the columns have doubled their capacity
ColumnsHaveGrown ==
    /\ size(builtStock) > initialCapacity
    /\ Len(builtStock.closes.buffer) = 2 * initialCapacity

-----------------------------------------------------------------------------
(* Properties of the CandleBuffer.                                          *)

\* C21: once ensure(ts) has completed on a CandleBuffer, a second ensure(ts)
\* with the same ts issues no datastore fetch and leaves buffer, nextTs and
\* done as they were
C21_EnsureTwiceChangesNothing ==
    [][(/\ lastOp = "ensure"
        /\ lastOp' = "ensure"
        /\ lastRequest'.ts = lastRequest.ts)
       => buffers' = buffers]_vars

\* the candles of a buffer are in strictly ascending time, each once
bufferAscending(b) ==
    \A k \in 1..(Len(b.buffer) - 1) : b.buffer[k].timestamp < b.buffer[k + 1].timestamp

\* C30: after any sequence of ensure calls the buffer is strictly ascending
\* by timestamp with no candle twice, nextTs is after the last buffered
\* timestamp when the buffer is not empty, and once done is set no datastore
\* fetch is issued and the buffer does not change
C30_BufferOrderedAndDoneIsFinal ==
    /\ [](\A n \in DOMAIN buffers :
             /\ bufferAscending(buffers[n])
             /\ Len(buffers[n].buffer) > 0
                => buffers[n].nextTs > buffers[n].buffer[Len(buffers[n].buffer)].timestamp)
    /\ [][\A n \in (DOMAIN buffers) \cap (DOMAIN buffers') :
             buffers[n].done
             => /\ buffers'[n].done
                /\ buffers'[n].fetches = buffers[n].fetches
                /\ buffers'[n].buffer = buffers[n].buffer]_vars

\* a buffer filled by two fetches and done, asked to ensure once more
C30_Witness ==
    /\ lastOp = "ensure"
    /\ Has(buffers, "1m")
    /\ buffers["1m"].done
    /\ buffers["1m"].fetches >= 2
    /\ Len(buffers["1m"].buffer) > buffers["1m"].prefetch

-----------------------------------------------------------------------------
(* Properties of the trade log.                                             *)

\* the shares of ticker t held after the first k swaps of a log
RECURSIVE positionAfter(_, _, _)
positionAfter(log, t, k) ==
    IF k = 0 THEN 0
    ELSE positionAfter(log, t, k - 1)
         + (IF log[k].stockName # t THEN 0
            ELSE IF log[k].type = "buy" THEN log[k].quantity ELSE -log[k].quantity)

\* the sells of a log that close a position: after them no share of the
\* ticker is held
closingSells(log) ==
    {k \in 1..Len(log) :
        log[k].type = "sell" /\ positionAfter(log, log[k].stockName, k) = 0}

\* C22: a trade is recorded only by a closing sell, so the number of trades
\* is the number of completed round trips
C22_TradesAreCompletedRoundTrips ==
    Len(trades) = Cardinality(closingSells(swaps))

\* the buys of ticker t in a log that no later sell of t follows
sincePreviousSell(log, t) ==
    {k \in 1..Len(log) :
        /\ log[k].stockName = t
        /\ log[k].type = "buy"
        /\ \A m \in (k + 1)..Len(log) :
              ~(log[m].stockName = t /\ log[m].type = "sell")}

RECURSIVE costOf(_, _)
costOf(log, K) ==
    IF K = {} THEN 0
    ELSE LET k == CHOOSE x \in K : TRUE
         IN  Notional(log[k].quantity, log[k].price) + costOf(log, K \ {k})

RECURSIVE feesOf(_, _)
feesOf(log, K) ==
    IF K = {} THEN 0
    ELSE LET k == CHOOSE x \in K : TRUE
         IN  log[k].fee + feesOf(log, K \ {k})

\* C23: the trade a sell records has profit = proceeds - matchedCost -
\* matchedFees - sellFee over the ticker's buys recorded since its previous
\* sell, the sell itself not being among the swaps walked; one buy followed by
\* one sell of the whole position yields exactly one trade
C23_TradeProfitOverMatchedBuys ==
    [][(/\ Len(swaps') = Len(swaps) + 1
        /\ swaps'[Len(swaps')].type = "sell")
       => LET s == swaps'[Len(swaps')]
              K == sincePreviousSell(swaps, s.stockName)
              tr == trades'[Len(trades')]
          IN  /\ Len(trades') = Len(trades) + 1
              /\ tr.stockName = s.stockName
              /\ tr.matched = Cardinality(K)
              /\ tr.profit = Notional(s.quantity, s.price) - costOf(swaps, K)
                             - feesOf(swaps, K) - s.fee
              /\ (/\ Len(swaps) = 1
                  /\ swaps[1].type = "buy"
                  /\ swaps[1].stockName = s.stockName
                  /\ swaps[1].quantity = s.quantity)
                 => /\ Len(trades') = 1
                    /\ tr.profit + Notional(swaps[1].quantity, swaps[1].price)
                       + swaps[1].fee + s.fee = Notional(s.quantity, s.price)]_vars

\* two buys of a ticker followed by a sell of it, at a fee: one trade, matched
\* with both buys
C23_Witness ==
    /\ Len(swaps) = 3
    /\ swaps[3].type = "sell"
    /\ Len(trades) = 1
    /\ trades[1].matched = 2
    /\ trades[1].profit # 0
    /\ trades[1].fee > 0

\* C24: every trade references at least one earlier buy of its ticker that
\* no earlier trade was matched with
C24_TradeHasMatchedBuys ==
    \A k \in 1..Len(trades) : trades[k].matched >= 1

-----------------------------------------------------------------------------
(* Properties of the metrics.                                               *)

\* the metrics of a run that has returned them are those of a run that did
\* nothing
metricsAllZero ==
    /\ trades = <<>>
    /\ getMetrics.trades = 0
    /\ getMetrics.totalFees = 0
    /\ IsZero(getMetrics.totalReturn)
    /\ IsZero(getMetrics.sharpe)
    /\ IsZero(getMetrics.maxDrawdown)

\* the run is over without the callback having failed
runOver == pc \in {"done", "failed"}

-----------------------------------------------------------------------------
(* Properties of the Strategy constructor.                                  *)

\* the intervals of the request that are marked main
mainIndexes(intervals) == {k \in 1..Len(intervals) : intervals[k].main}

-----------------------------------------------------------------------------
(* Properties of the broker fees.                                           *)

smaller(a, b) == IF a < b THEN a ELSE b

larger(a, b) == IF a > b THEN a ELSE b

\* min(c, 0.01 * notional) in money units, the notional being in 1e-4 dollars:
\* c is the smaller one when c / 100, rounded up, is at most the notional
cappedAtOnePercent(c, notional) ==
    IF (c + 99) \div 100 <= notional THEN c ELSE notional * 100

\* the per-share rate and the minimum of an IBKR fee type, in money units
perShareOf(feeType) == IF feeType = "fixed" THEN 500000 ELSE 350000

minFeeOf(feeType) == IF feeType = "fixed" THEN 100000000 ELSE 35000000

\* the fees of an IBKR order other than the base commission and the
\* pass-through fees charged on it
IBKRPerShareFees(feeType, quantity, side) ==
    (IF side = "sell" THEN quantity * 16600 + quantity * 2200 ELSE 0)
    + (IF feeType = "tiered" THEN quantity * 20000 ELSE 0)

\* the base commission inside a fee IBKR returned: what is left of the fee
\* without the per-share fees is commission * (1 + 0.000175 + 0.00056) for
\* tiered and the commission itself for fixed
feeMatchesCommission(feeType, quantity, side, fee, commission) ==
    fee = commission + IBKRPerShareFees(feeType, quantity, side)
          + (IF feeType = "tiered"
             THEN (commission * 7) \div 40000 + (commission * 7) \div 12500
             ELSE 0)

\* C27: IBKR's base commission is max(minFee, min(qty * perShare, 0.01 * qty
\* * price)), never below minFee; a tiered buy of 100 shares at 50 costs
\* 0.35 + 0.02 + 0.35 * (0.000175 + 0.00056)
C27_CommissionNeverBelowMinFee ==
    (lastOp = "calculateFees" /\ lastRequest.broker = "IBKR")
    => LET r == lastRequest
           commission == larger(minFeeOf(r.feeType),
                                cappedAtOnePercent(r.quantity * perShareOf(r.feeType),
                                                   r.quantity * r.price))
       IN  /\ commission >= minFeeOf(r.feeType)
           /\ feeMatchesCommission(r.feeType, r.quantity, r.side, lastResult.fee,
                                   commission)
           /\ (r.feeType = "tiered" /\ r.quantity = 100 /\ r.price = 500000
               /\ r.side = "buy")
              => lastResult.fee = 35000000 + 2000000 + 6125 + 19600

\* C27 as amended: the base commission is min(max(qty * perShare, minFee),
\* 0.01 * qty * price), never above 1% of the notional and below minFee only
\* when 1% of the notional is; the tiered example is as stated
C27_CommissionCappedAfterMinFee ==
    (lastOp = "calculateFees" /\ lastRequest.broker = "IBKR")
    => LET r == lastRequest
           notional == r.quantity * r.price
           commission == cappedAtOnePercent(larger(r.quantity * perShareOf(r.feeType),
                                                   minFeeOf(r.feeType)), notional)
       IN  /\ (commission + 99) \div 100 <= notional
           /\ commission < minFeeOf(r.feeType) => commission = notional * 100
           /\ feeMatchesCommission(r.feeType, r.quantity, r.side, lastResult.fee,
                                   commission)
           /\ (r.feeType = "tiered" /\ r.quantity = 100 /\ r.price = 500000
               /\ r.side = "buy")
              => lastResult.fee = 35000000 + 2000000 + 6125 + 19600

\* the tiered buy of 100 shares at 50 dollars has been priced
C27_Witness ==
    /\ lastOp = "calculateFees"
    /\ lastRequest.broker = "IBKR"
    /\ lastRequest.feeType = "tiered"
    /\ lastRequest.quantity = 100
    /\ lastRequest.price = 500000
    /\ lastRequest.side = "buy"
    /\ lastResult.fee = 37025725

\* C28: IBKR takes an optional slippage at construction and its fees include
\* qty * price * slippage on buys and on sells
C28_IBKRFeesIncludeSlippage ==
    (lastOp = "calculateFees" /\ lastRequest.broker = "IBKR")
    => LET r == lastRequest
       IN  lastResult.fee
           = IBKRFees(r.feeType, r.quantity, r.price, r.side)
             + r.quantity * r.price * r.slippage

\* the fee of an Alpaca order r as stated: the TAF of a sell is min(min(qty,
\* 50205) * 0.000195, 9.79) rounded up to the cent
alpacaFeesAsStated(r, fee) ==
    LET uncut == smaller(smaller(r.quantity, 50205) * 19500, 979000000)
        taf == IF r.side = "sell" THEN ((uncut + 999999) \div 1000000) * 1000000
               ELSE 0
    IN  /\ taf <= 979000000
        /\ fee = taf + r.quantity * 2650 + r.quantity * r.price * r.slippage

\* C29: Alpaca's fees are TAF + qty * 0.0000265 + qty * price * slippage,
\* the TAF being 0 on a buy and min(min(qty, 50205) * 0.000195, 9.79) rounded
\* up to the cent on a sell, so never more than 9.79
C29_AlpacaFeesWithCappedTAF ==
    (lastOp = "calculateFees" /\ lastRequest.broker = "Alpaca")
    => alpacaFeesAsStated(lastRequest, lastResult.fee)

\* the Alpaca class of part_004 (lines 77-121) charges what C29 states
CappedAlpacaChargesAsStated ==
    (lastOp = "calculateFees" /\ lastRequest.broker = "Alpaca"
     /\ lastRequest.feeType = "part_004")
    => alpacaFeesAsStated(lastRequest, lastResult.fee)

-----------------------------------------------------------------------------
(* Properties of the loop of runOnStock.                                    *)

\* the timestamps of the bars the callback was invoked for, in order: those
\* whose callback returned, and the bar in the callback's hands
dispatchedTs ==
    [k \in 1..Len(equityCurve) |-> equityCurve[k][1]]
    \o (IF pc \in {"callback", "aborted"} THEN <<BarTs>> ELSE <<>>)

\* the loop of runOnStock is over and getMetrics is next, or has been called
loopEnded == running = "runOnStock" /\ pc \in {"metrics", "done", "failed"}

\* the datastore holds a main bar after timestamp ts and before endDate
furtherBar(ts) ==
    \E k \in 1..Len(Series(MainName, OneStock)) :
        /\ Series(MainName, OneStock)[k].timestamp > ts
        /\ Series(MainName, OneStock)[k].timestamp < endDate

\* C31: runOnStock dispatches the main bars in strictly ascending time, each
\* once; its loop ends only at the first bar with timestamp >= endDate or
\* when the datastore holds no further bar before endDate, every bar of the
\* datastore between the first bar dispatched and endDate having been
\* dispatched by then; and the run terminates
C31_LoopDispatchesEveryBarAndTerminates ==
    /\ [](running = "runOnStock"
          => /\ \A k \in 1..(Len(dispatchedTs) - 1) :
                   dispatchedTs[k] < dispatchedTs[k + 1]
             /\ loopEnded
                => /\ IF i < Len(MainBuf)
                      THEN /\ MainCandle.timestamp >= endDate
                           /\ \A k \in 1..i : MainBuf[k].timestamp < endDate
                      ELSE ~furtherBar(IF Len(MainBuf) = 0 THEN startDate - 1
                                       ELSE MainBuf[Len(MainBuf)].timestamp)
                   /\ \A k \in 1..Len(Series(MainName, OneStock)) :
                         LET ts == Series(MainName, OneStock)[k].timestamp
                         IN  (/\ Len(dispatchedTs) > 0
                              /\ ts > dispatchedTs[1]
                              /\ ts < endDate)
                             => \E m \in 1..Len(dispatchedTs) : dispatchedTs[m] = ts)
    /\ <>(running = "runOnStock" => pc \in {"done", "failed", "aborted"})

\* a run has ended after dispatching more bars than one fetch of the main
\* buffer loads
C31_Witness ==
    /\ running = "runOnStock"
    /\ pc = "done"
    /\ buffers[MainName].fetches >= 2
    /\ Len(equityCurve) > buffers[MainName].prefetch
    /\ ~furtherBar(equityCurve[Len(equityCurve)][1])

\* C32: when the callback fails on a bar (it ends with the error of a call
\* standing, not having caught it) the run aborts: the failure leaves
\* the engine state, with the effects of the orders accepted before it, and
\* the equity curve as they were, no entry is appended for the bar, and from
\* then on nothing happens: no later bar is dispatched and getMetrics is not
\* called
C32_CallbackFailureAbortsRun ==
    /\ [](pc = "aborted"
          => /\ lastError # "none"
             /\ \A k \in 1..Len(equityCurve) : equityCurve[k][1] # BarTs)
    /\ [][/\ pc # "aborted"
          /\ (pc = "callback" /\ pc' # "callback" /\ lastError' # "none")
             => /\ pc' = "aborted"
                /\ UNCHANGED <<engineVars, equityCurve, delistCounter, i>>]_vars

\* a run was aborted by a buy refused for lack of cash, after a bar had been
\* dispatched and an order accepted
C32_Witness ==
    /\ pc = "aborted"
    /\ lastOp = "buy"
    /\ lastError = "InsufficientCash"
    /\ Len(swaps) = 1
    /\ cashBalance < startCashBalance
    /\ Len(equityCurve) >= 1

\* C33: in runOnStock the ensure calls of one bar complete in any order, the
\* callback of the bar starts only when all of them have completed, no buffer
\* changes while the callback runs, and the ensure round of a bar starts only
\* from the head of the loop, when every earlier bar's callback has returned
\* and its equity entry is appended: one bar is in flight at a time
C33_OneBarInFlight ==
    /\ []((running = "runOnStock" /\ pc \in {"callback", "aborted"})
          => pendingEnsure = {})
    /\ [][running = "runOnStock"
          => /\ (pc = "ensure" /\ pc' = "callback") => pendingEnsure = {}
             /\ pc = "callback" => buffers' = buffers /\ i' \in {i, i + 1}
             /\ (pc # "ensure" /\ pc' = "ensure")
                => /\ pc = "loop"
                   /\ pendingEnsure' = DOMAIN buffers
                   /\ Len(equityCurve) = i - (Lookback - 1)
             /\ (pc = "callback" /\ pc' = "loop")
                => /\ Len(equityCurve') = Len(equityCurve) + 1
                   /\ equityCurve'[Len(equityCurve')][1] = BarTs
                   /\ i' = i + 1]_vars

\* in the ensure round of a later bar the buffer of the second timeframe has
\* completed its ensure and the main buffer has not
C33_Witness ==
    /\ running = "runOnStock"
    /\ pc = "ensure"
    /\ Cardinality(DOMAIN buffers) = 2
    /\ pendingEnsure = {MainName}
    /\ Len(equityCurve) >= 1

\* the other order: the main buffer has completed its ensure first
EnsureMainFirst ==
    /\ running = "runOnStock"
    /\ pc = "ensure"
    /\ Cardinality(DOMAIN buffers) = 2
    /\ pendingEnsure = (DOMAIN buffers) \ {MainName}
    /\ Len(equityCurve) >= 1

-----------------------------------------------------------------------------
(* Properties of getCandles and of the per-symbol set in runOnAllStocks.    *)

FallbackReachesBeforeStock ==
    /\ running = "runOnAllStocks"
    /\ pc = "callback"
    /\ lastOp = "getCandles"
    /\ lastRequest.intervalName = MainName
    /\ lastRequest.stockName = "A"
    /\ lastRequest.count = 2
    /\ heldUpTo(stocks["A"], lastRequest.ts) = 1
    /\ lastResult.kind = "candles"

-----------------------------------------------------------------------------
(* Properties of the feature vectors.                                       *)

\* the last swap among the first m of a log that sold ticker t down to no
\* share, 0 when there is none
lastLiquidation(log, t, m) ==
    LET S == {k \in 1..m : /\ log[k].stockName = t
                           /\ log[k].type = "sell"
                           /\ positionAfter(log, t, k) = 0}
    IN  IF S = {} THEN 0 ELSE CHOOSE k \in S : \A j \in S : j <= k

\* the vector of the most recent buy of t among the first m swaps that
\* supplied one since the last liquidation of t before it, none when no such
\* buy supplied one
carriedVector(log, t, m) ==
    LET S == {k \in (lastLiquidation(log, t, m) + 1)..m :
                 /\ log[k].stockName = t
                 /\ log[k].type = "buy"
                 /\ log[k].supplied.isArray}
    IN  IF S = {} THEN NoFeatures
        ELSE log[CHOOSE k \in S : \A j \in S : j <= k].supplied

\* the sells of a log, in order
sellIndexes(log) == {k \in 1..Len(log) : log[k].type = "sell"}

\* C35: the trade a sell records carries the vector of the most recent buy of
\* the ticker that supplied one since the ticker's last full liquidation, and
\* none when no such buy supplied one; the vector stored for a ticker is that
\* vector, so a buy without features leaves it and a full liquidation clears it
C35_TradeCarriesLatestSuppliedVector ==
    /\ Len(trades) = Cardinality(sellIndexes(swaps))
    /\ \A m \in sellIndexes(swaps) :
          trades[Cardinality({k \in sellIndexes(swaps) : k <= m})].features
              = carriedVector(swaps, swaps[m].stockName, m - 1)
    /\ \A t \in Tickers :
          (IF Has(stockFeatures, t) THEN Features(stockFeatures[t]) ELSE NoFeatures)
              = carriedVector(swaps, t, Len(swaps))

\* a buy with a vector, a buy without one and a sell of a part: the trade
\* carries the vector and the vector is still stored
C35_Witness ==
    /\ Len(swaps) = 3
    /\ swaps[1].type = "buy" /\ swaps[1].supplied = Features(<<2>>)
    /\ swaps[2].type = "buy" /\ swaps[2].supplied = NoFeatures
    /\ swaps[3].type = "sell"
    /\ swaps[1].stockName = swaps[3].stockName
    /\ swaps[2].stockName = swaps[3].stockName
    /\ trades[1].features = Features(<<2>>)
    /\ Has(stockFeatures, swaps[3].stockName)

\* a position opened with a vector was sold, opened again without one and
\* sold: the second trade carries none
SecondTripCarriesNone ==
    /\ Len(swaps) = 4
    /\ \A k \in 1..4 : swaps[k].stockName = "A"
    /\ swaps[1].supplied = Features(<<1>>)
    /\ swaps[2].type = "sell"
    /\ swaps[3].type = "buy" /\ swaps[3].supplied = NoFeatures
    /\ swaps[4].type = "sell"
    /\ trades[1].features = Features(<<1>>)
    /\ trades[2].features = NoFeatures

-----------------------------------------------------------------------------
(* Properties of the balances.                                              *)

\* ticker t was dropped by the delisting pass
droppedByDelisting(t) == GetOr0(delistCounter, t) > 10

\* C36: fees never change share counts: for every ticker that was not dropped
\* by delisting, its stockBalances value (0 when absent) is the total quantity
\* of its buy swaps minus the total quantity of its sell swaps
C36_SharesAreBoughtMinusSold ==
    \A t \in Tickers :
        ~droppedByDelisting(t)
        => GetOr0(stockBalances, t) = positionAfter(swaps, t, Len(swaps))

\* two buys and a sell of a part were executed at a fee, and a share is left
C36_Witness ==
    /\ Len(swaps) = 3
    /\ swaps[3].type = "sell"
    /\ \A k \in 1..3 : swaps[k].fee > 0 /\ swaps[k].stockName = "A"
    /\ GetOr0(stockBalances, "A") = 1
    /\ totalFees > 0

\* the cash the swaps of a log moved: - (qty * price + fee) for a buy,
\* + (qty * price - fee) for a sell
RECURSIVE cashFlow(_)
cashFlow(log) ==
    IF log = <<>> THEN 0
    ELSE LET s == log[Len(log)]
             amount == Notional(s.quantity, s.price)
         IN  cashFlow(SubSeq(log, 1, Len(log) - 1))
             + (IF s.type = "buy" THEN -(amount + s.fee) ELSE amount - s.fee)

\* C37: cashBalance is startCashBalance minus (qty * price + fee) over the buy
\* swaps plus (qty * price - fee) over the sell swaps, and only a step that
\* records a swap changes it: marking to market, the appends to the equity
\* curve, getMetrics and the delisting pass do not
C37_CashIsStartPlusSwapFlows ==
    /\ [](cashBalance = startCashBalance + cashFlow(swaps))
    /\ [][cashBalance' # cashBalance => Len(swaps') = Len(swaps) + 1]_vars

\* a run has ended after a buy, the marking to market and the equity points
\* of many dates, and the delisting drop of the position bought
C37_Witness ==
    /\ running = "runOnAllStocks"
    /\ pc = "done"
    /\ Len(swaps) = 1
    /\ droppedByDelisting("A")
    /\ ~Has(stockBalances, "A")
    /\ Len(equityCurve) > 11
    /\ cashBalance = startCashBalance - Notional(1, 1) - swaps[1].fee

\* a sell at a fee has been executed during a run
SellAtAFeeInARun ==
    /\ running = "runOnAllStocks"
    /\ Len(swaps) = 2
    /\ swaps[2].type = "sell"
    /\ swaps[2].fee > 0

\* C38: every bar runOnStock invokes the callback on, and appends an equity
\* point for, has a timestamp t with startDate <= t < endDate: the bars
\* fetched from before startDate are lookback only
C38_DispatchedBarsWithinRun ==
    running = "runOnStock"
    => \A k \in 1..Len(dispatchedTs) :
          startDate <= dispatchedTs[k] /\ dispatchedTs[k] < endDate

\* the bars dispatched by runOnStock are before endDate
DispatchedBarsBeforeEnd ==
    running = "runOnStock"
    => \A k \in 1..Len(dispatchedTs) : dispatchedTs[k] < endDate

\* runOnStock dispatches at most one bar from before startDate, the first
\* one, and it is not more than one step of the main timeframe before it
OnlyFirstBarBeforeStart ==
    running = "runOnStock"
    => \A k \in 1..Len(dispatchedTs) :
          /\ dispatchedTs[k] >= startDate - IntervalMs(MainName)
          /\ k > 1 => dispatchedTs[k] >= startDate

\* C39: in runOnAllStocks the candle of every per-symbol entry handed to the
\* callback, which also set stockPrices, is never later than the tick, and a
\* symbol with no loaded row at or before the tick has no entry (so it counts
\* as absent for delisting detection).
C39_EntryCandleNotLaterThanTick ==
    (running = "runOnAllStocks" /\ pc = "callback")
    => /\ \A t \in DOMAIN arr : arr[t].timestamp <= CurrentDate
       /\ \A t \in DOMAIN stocks :
             (\A k \in 1..Len(stocks[t]) : stocks[t][k].timestamp > CurrentDate)
             => t \notin DOMAIN arr

\* an entry is always one of the loaded rows of its symbol, and the nearest one
EntryIsNearestLoadedRow ==
    (running = "runOnAllStocks" /\ pc = "callback")
    => \A t \in DOMAIN arr :
          \E k \in 1..Len(stocks[t]) :
             /\ stocks[t][k] = arr[t]
             /\ \A j \in 1..Len(stocks[t]) :
                   Abs(stocks[t][k].timestamp - CurrentDate)
                      <= Abs(stocks[t][j].timestamp - CurrentDate)

\* the swap of the k-th trade: the k-th sell of the log
sellOfTrade(k) ==
    CHOOSE s \in sellIndexes(swaps) :
        Cardinality({m \in sellIndexes(swaps) : m <= s}) = k

\* the buys the k-th trade was computed over: those of its ticker recorded
\* since the ticker's previous sell
buysOfTrade(k) ==
    LET s == sellOfTrade(k)
    IN  sincePreviousSell(SubSeq(swaps, 1, s - 1), swaps[s].stockName)

\* the first sell of the ticker of swap b recorded after it, 0 when none
firstLaterSell(b) ==
    LET later == {s \in sellIndexes(swaps) :
                     s > b /\ swaps[s].stockName = swaps[b].stockName}
    IN  IF later = {} THEN 0
        ELSE CHOOSE s \in later : \A m \in later : s <= m

RECURSIVE sumProfit(_)
sumProfit(log) ==
    IF log = <<>> THEN 0 ELSE log[1].profit + sumProfit(Tail(log))

\* the latest swap of every traded ticker is a sell
everyTickerSoldLast ==
    \A b \in 1..Len(swaps) :
        swaps[b].type = "buy" => firstLaterSell(b) # 0

\* C40: every buy swap enters the profit of exactly one trade, that of the
\* first later sell of its ticker, and of no other; so whenever the latest
\* swap of every traded ticker is a sell, the profits of all trades sum to
\* cashBalance - startCashBalance, partial sells included
C40_BuysAttributedOnceProfitsSumToCash ==
    /\ Len(trades) = Cardinality(sellIndexes(swaps))
    /\ \A k \in 1..Len(trades) :
          LET s == sellOfTrade(k)
          IN  /\ trades[k].matched = Cardinality(buysOfTrade(k))
              /\ trades[k].profit = Notional(swaps[s].quantity, swaps[s].price)
                                    - costOf(swaps, buysOfTrade(k))
                                    - feesOf(swaps, buysOfTrade(k)) - swaps[s].fee
    /\ \A b \in 1..Len(swaps) :
          swaps[b].type = "buy"
          => LET K == {k \in 1..Len(trades) : b \in buysOfTrade(k)}
             IN  IF firstLaterSell(b) = 0 THEN K = {}
                 ELSE /\ Cardinality(K) = 1
                      /\ \A k \in K : sellOfTrade(k) = firstLaterSell(b)
    /\ everyTickerSoldLast => sumProfit(trades) = cashBalance - startCashBalance

\* a position of two shares bought at a fee and closed by two partial sells
C40_Witness ==
    /\ Len(swaps) = 3
    /\ swaps[1].type = "buy" /\ swaps[1].quantity = 2 /\ swaps[1].fee > 0
    /\ swaps[2].type = "sell" /\ swaps[2].quantity = 1
    /\ swaps[3].type = "sell" /\ swaps[3].quantity = 1
    /\ swaps[2].stockName = swaps[1].stockName
    /\ swaps[3].stockName = swaps[1].stockName
    /\ Len(trades) = 2
    /\ trades[1].matched = 1 /\ trades[2].matched = 0
    /\ sumProfit(trades) = cashBalance - startCashBalance
    /\ sumProfit(trades) # 0

\* a position still open after a partial sell: the profits already sum to the
\* change in cash, which is below zero by more than the fees
PartialSellLeavesOpenPosition ==
    /\ Len(swaps) = 2
    /\ swaps[2].type = "sell"
    /\ Has(stockBalances, swaps[2].stockName)
    /\ sumProfit(trades) = cashBalance - startCashBalance
    /\ sumProfit(trades) + totalFees < 0

====
